---- MODULE Spec2Model ----
(***************************************************************************)
(* Model of ak_allocator::__detail::mem_pool (src/allocator/               *)
(* page_allocator.h): one arena over one mmap'ed reservation, with the     *)
(* host calls mmap / mprotect / munmap as an explicit page table.          *)
(*                                                                         *)
(* Addresses and std::size_t values are machine words.  The program uses   *)
(* 64-bit words; the model uses words modulo AddrSpace, a multiple of the  *)
(* page size as 2^64 is, and every +, - and * of the source is taken       *)
(* modulo AddrSpace.  nullptr is 0 and MAP_FAILED, the all-ones word, is   *)
(* the last word.                                                          *)
(***************************************************************************)
EXTENDS Integers, Sequences, FiniteSets, TLC

\* ------------------------------------------------------------------ bounds
\* sysconf(_SC_PAGE_SIZE): bytes per page of the modelled host.
PageSize == 2
\* Number of pages of the modelled address space (room for two mappings
\* of allocate_pgs pages).
SpacePages == 24
\* Largest slot count a caller passes in.
MaxCount == 2
\* Largest page count passed to init_pool explicitly.
MaxPages == 4
\* Slots given back through delete_allocation, per arena lifetime.
MaxFreed == 2
\* _MaxObjects of the page_allocator instantiation with a slot ceiling.
MaxObjects == 1
\* _MaxObjects of the page_allocator of the vector that has a ceiling.
MaxVectorObjects == 4
\* Largest element count passed to vector::reserve.
MaxReserve == 5

\* sizeof(elem_type) of the instantiations modelled: one byte, and a size
\* that is no divisor of the page size.
ElemSizes == {1, 3}
\* The host refuses no mprotect call (0), or the first or second of a call.
Refusals == {0, 1, 2}

\* ------------------------------------------------------- program constants
\* const std::size_t allocate_pgs{10}
allocate_pgs == 10

AddrSpace == SpacePages * PageSize
NULL == 0
MAP_FAILED == AddrSpace - 1

\* ------------------------------------------------- machine word arithmetic
Add(a, b) == (a + b) % AddrSpace
Sub(a, b) == (a + AddrSpace - (b % AddrSpace)) % AddrSpace
Mul(a, b) == (a * b) % AddrSpace

VARIABLES
  pool,       \* the mem_pool object: its data members
  prot,       \* host page table: page index -> "unmapped" | "none" | "rw"
  elem_size,  \* sizeof(elem_type) of this instantiation
  last,       \* the last call on the arena: operation, arguments, result
  live,       \* the last init_pool that reached mmap returned true, and no
              \* deinit_pool has returned true since
  blk,        \* one block allocated in this lifetime, followed from then on
  freed,      \* slots given back through delete_allocation in this lifetime
  torn,       \* a deinit_pool of a live arena has returned true
  objs_number, \* page_allocator::objs_number of the facade that owns pool (0:
              \* no ceiling; also when the mem_pool is used without a facade)
  other,      \* the mem_pool of a second page_allocator of the same type
  other_live, \* live, for other
  alive,      \* the page_allocator objects in their lifetime: "a" owns pool,
              \* "b" owns other
  vec,        \* a vector whose allocator is the page_allocator that owns pool
  xvec,       \* a second vector, whose allocator is the page_allocator that
              \* owns other
  held,       \* the blocks of pool a caller holds, each as <<pointer, slot
              \* count>>, in the order it got them (where the caller keeps
              \* such a list)
  retry       \* the frames of _M_fill_assign(n, val) on the stack, each the
              \* argument n; the body of the last one is about to run (where
              \* the calls of a vector are followed body by body)

\* The state of the page_allocators around the arenas, and of their callers.
facade == <<objs_number, other, other_live, alive, vec, xvec, held, retry>>

vars == <<pool, prot, elem_size, last, live, blk, freed, torn, facade>>

\* ---------------------------------------------------------------- mem_pool
\* Default member initializers of mem_pool.
EmptyPool ==
  [begin_gp |-> NULL, end_gp |-> NULL, allocation_area |-> NULL,
   first_not_commited |-> NULL, pages_mmaped |-> 0, occupied_slots |-> 0,
   free_slots_left |-> 0, pagesize |-> 0]

Pages == 0 .. (SpacePages - 1)
PageOf(addr) == addr \div PageSize

\* What the host decides during one call: where mmap would place a mapping
\* (MAP_FAILED: it refuses), which mprotect call of the operation it refuses
\* (0: none), and whether munmap of a valid mapping succeeds.
Bases == {2 * PageSize}
Envs == {e \in [base : Bases \cup {MAP_FAILED}, refuse : Refusals, unmap : BOOLEAN] :
           e.base = MAP_FAILED => (e.refuse = 0 /\ e.unmap)}

\* mmap(NULL, len, PROT_NONE, MAP_ANONYMOUS | MAP_PRIVATE, -1, 0)
mmap(h, len, env) ==
  IF /\ env.base # MAP_FAILED
     /\ len > 0
     /\ len % PageSize = 0
     /\ env.base + len <= AddrSpace - PageSize
     /\ \A pg \in Pages :
          (env.base <= pg * PageSize /\ pg * PageSize < env.base + len)
             => h[pg] = "unmapped"
  THEN [host |-> [pg \in Pages |->
                    IF env.base <= pg * PageSize /\ pg * PageSize < env.base + len
                    THEN "none" ELSE h[pg]],
        addr |-> env.base]
  ELSE [host |-> h, addr |-> MAP_FAILED]

\* mprotect(pg, pagesize, PROT_READ | PROT_WRITE); calls counts the mprotect
\* calls of the running operation, this one included.
mprotect(h, pg, len, env, calls) ==
  IF /\ pg % PageSize = 0
     /\ len \in {0, PageSize}
     /\ len > 0 => h[PageOf(pg)] # "unmapped"
     /\ env.refuse # calls
  THEN [host |-> IF len > 0 THEN [h EXCEPT ![PageOf(pg)] = "rw"] ELSE h,
        ok |-> TRUE]
  ELSE [host |-> h, ok |-> FALSE]

\* munmap(begin_gp, pages_mmaped * pagesize)
munmap(h, addr, len, env) ==
  IF /\ addr % PageSize = 0
     /\ len > 0
     /\ addr + len <= AddrSpace
     /\ env.unmap
  THEN [host |-> [pg \in Pages |->
                    IF addr <= pg * PageSize /\ pg * PageSize < addr + len
                    THEN "unmapped" ELSE h[pg]],
        ok |-> TRUE]
  ELSE [host |-> h, ok |-> FALSE]

\* bool owns(void *val)
owns(p, val) == val > p.allocation_area /\ val < p.begin_gp

\* int set_pagesize()
set_pagesize(p) == [p EXCEPT !.pagesize = PageSize]

\* commit_page(pg) that moves first_not_commited before it asks the host.
commit_page_moves_first(p, h, pg, env, calls) ==
  IF pg < Add(p.begin_gp, p.pagesize) \/ pg > p.end_gp
  THEN [pool |-> p, host |-> h, ret |-> FALSE, calls |-> calls]
  ELSE LET m == mprotect(h, pg, p.pagesize, env, calls + 1) IN
       [pool |-> [p EXCEPT !.first_not_commited = Add(pg, p.pagesize)],
        host |-> m.host, ret |-> m.ok, calls |-> calls + 1]

\* bool commit_page(void *pg)
commit_page(p, h, pg, env, calls) ==
  IF pg < Add(p.begin_gp, p.pagesize) \/ pg > p.end_gp
  THEN [pool |-> p, host |-> h, ret |-> FALSE, calls |-> calls]
  ELSE LET m == mprotect(h, pg, p.pagesize, env, calls + 1) IN
       IF ~m.ok
       THEN [pool |-> p, host |-> m.host, ret |-> FALSE, calls |-> calls + 1]
       ELSE [pool |-> [p EXCEPT !.first_not_commited = Add(pg, p.pagesize)],
             host |-> m.host, ret |-> TRUE, calls |-> calls + 1]

\* The while loop of checked_range_commit.
RECURSIVE range_loop(_, _, _, _, _, _)
range_loop(p, h, page_to_commit, pg, env, calls) ==
  IF page_to_commit < pg
  THEN LET c == commit_page(p, h, page_to_commit, env, calls) IN
       IF ~c.ret THEN c
       ELSE range_loop(c.pool, c.host, Add(page_to_commit, p.pagesize), pg, env, c.calls)
  ELSE [pool |-> p, host |-> h, ret |-> TRUE, calls |-> calls]

\* bool checked_range_commit(void *pg)
checked_range_commit(p, h, pg, env, calls) ==
  IF pg > p.first_not_commited
  THEN range_loop(p, h, p.first_not_commited, pg, env, calls)
  ELSE [pool |-> p, host |-> h, ret |-> TRUE, calls |-> calls]

\* deinit_pool() that leaves occupied_slots and free_slots_left as they are.
deinit_pool_keeps_counters(p, h, env) ==
  IF p.begin_gp = NULL THEN [pool |-> p, host |-> h, ret |-> FALSE, why |-> "null"]
  ELSE LET u == munmap(h, p.begin_gp, Mul(p.pages_mmaped, p.pagesize), env) IN
       IF u.ok
       THEN [pool |-> [p EXCEPT !.allocation_area = NULL, !.begin_gp = NULL,
                                !.end_gp = NULL, !.first_not_commited = NULL,
                                !.pages_mmaped = 0],
             host |-> u.host, ret |-> TRUE, why |-> "ok"]
       ELSE [pool |-> p, host |-> h, ret |-> FALSE, why |-> "munmap"]

\* bool deinit_pool()
deinit_pool(p, h, env) ==
  IF p.begin_gp = NULL THEN [pool |-> p, host |-> h, ret |-> FALSE, why |-> "null"]
  ELSE LET u == munmap(h, p.begin_gp, Mul(p.pages_mmaped, p.pagesize), env) IN
       IF u.ok
       THEN [pool |-> [p EXCEPT !.allocation_area = NULL, !.begin_gp = NULL,
                                !.end_gp = NULL, !.first_not_commited = NULL,
                                !.pages_mmaped = 0, !.occupied_slots = 0,
                                !.free_slots_left = 0],
             host |-> u.host, ret |-> TRUE, why |-> "ok"]
       ELSE [pool |-> p, host |-> h, ret |-> FALSE, why |-> "munmap"]

\* init_pool(pgs) without the test of begin_gp.
init_pool_unchecked(p0, h, pgs0, env) ==
  LET p   == IF p0.pagesize = 0 THEN set_pagesize(p0) ELSE p0
      pgs == IF pgs0 = 0 THEN allocate_pgs ELSE pgs0
  IN
  IF FALSE
  THEN [pool |-> p, host |-> h, ret |-> FALSE, calls |-> 0, why |-> "already"]
  ELSE
    LET m == mmap(h, Mul(pgs, p.pagesize), env) IN
    IF m.addr = MAP_FAILED
    THEN [pool |-> [p EXCEPT !.begin_gp = MAP_FAILED], host |-> h,
          ret |-> FALSE, calls |-> 0, why |-> "mmap"]
    ELSE
      LET area == Add(m.addr, p.pagesize)
          q == [p EXCEPT
                  !.begin_gp = m.addr,
                  !.pages_mmaped = pgs,
                  !.allocation_area = area,
                  !.end_gp = Add(m.addr, Mul(Sub(pgs, 1), p.pagesize)),
                  !.first_not_commited = Add(area, p.pagesize),
                  !.occupied_slots = 0,
                  !.free_slots_left =
                     Sub(Mul(pgs, p.pagesize), Mul(2, p.pagesize)) \div elem_size]
          c == commit_page(q, m.host, area, env, 0)
      IN
      IF ~c.ret
      THEN LET d == deinit_pool(c.pool, c.host, env) IN
           [pool |-> d.pool, host |-> d.host, ret |-> FALSE, calls |-> c.calls,
            why |-> IF c.calls = 0 THEN "range" ELSE "mprotect"]
      ELSE [pool |-> c.pool, host |-> c.host, ret |-> TRUE, calls |-> c.calls,
            why |-> "ok"]

\* bool init_pool(std::size_t pgs)
init_pool(p0, h, pgs0, env) ==
  LET p   == IF p0.pagesize = 0 THEN set_pagesize(p0) ELSE p0
      pgs == IF pgs0 = 0 THEN allocate_pgs ELSE pgs0
  IN
  IF p.begin_gp # NULL
  THEN [pool |-> p, host |-> h, ret |-> FALSE, calls |-> 0, why |-> "already"]
  ELSE
    LET m == mmap(h, Mul(pgs, p.pagesize), env) IN
    IF m.addr = MAP_FAILED
    THEN [pool |-> [p EXCEPT !.begin_gp = MAP_FAILED], host |-> h,
          ret |-> FALSE, calls |-> 0, why |-> "mmap"]
    ELSE
      LET area == Add(m.addr, p.pagesize)
          q == [p EXCEPT
                  !.begin_gp = m.addr,
                  !.pages_mmaped = pgs,
                  !.allocation_area = area,
                  !.end_gp = Add(m.addr, Mul(Sub(pgs, 1), p.pagesize)),
                  !.first_not_commited = Add(area, p.pagesize),
                  !.occupied_slots = 0,
                  !.free_slots_left =
                     Sub(Mul(pgs, p.pagesize), Mul(2, p.pagesize)) \div elem_size]
          c == commit_page(q, m.host, area, env, 0)
      IN
      IF ~c.ret
      THEN LET d == deinit_pool(c.pool, c.host, env) IN
           [pool |-> d.pool, host |-> d.host, ret |-> FALSE, calls |-> c.calls,
            why |-> IF c.calls = 0 THEN "range" ELSE "mprotect"]
      ELSE [pool |-> c.pool, host |-> c.host, ret |-> TRUE, calls |-> c.calls,
            why |-> "ok"]

\* Address of slot number n: allocation_area + n (elem_type pointer arithmetic).
SlotAddr(p, n) == Add(p.allocation_area, Mul(n, elem_size))

\* get_allocation that returns the slot after the block: retVal is read after
\* occupied_slots has been advanced.
get_allocation_body_returns_next(p, h, nmbr, env, calls) ==
  IF p.free_slots_left < nmbr
  THEN [pool |-> p, host |-> h, ret |-> NULL, why |-> "nofit"]
  ELSE
    LET end_byte == Sub(SlotAddr(p, Add(p.occupied_slots, nmbr)), 1)
        c == checked_range_commit(p, h, end_byte, env, calls)
    IN
    IF ~c.ret
    THEN [pool |-> c.pool, host |-> c.host, ret |-> NULL, why |-> "commit"]
    ELSE [pool |-> [c.pool EXCEPT
                      !.occupied_slots = Add(c.pool.occupied_slots, nmbr),
                      !.free_slots_left = Sub(c.pool.free_slots_left, nmbr)],
          host |-> c.host,
          ret |-> SlotAddr(c.pool, Add(c.pool.occupied_slots, nmbr)),
          why |-> "ok"]

\* get_allocation that advances the counters before it commits the pages, and
\* does not take them back when the commit fails.
get_allocation_body_counts_first(p, h, nmbr, env, calls) ==
  IF p.free_slots_left < nmbr
  THEN [pool |-> p, host |-> h, ret |-> NULL, why |-> "nofit"]
  ELSE
    LET end_byte == Sub(SlotAddr(p, Add(p.occupied_slots, nmbr)), 1)
        c == checked_range_commit(p, h, end_byte, env, calls)
        q == [c.pool EXCEPT
                !.occupied_slots = Add(c.pool.occupied_slots, nmbr),
                !.free_slots_left = Sub(c.pool.free_slots_left, nmbr)]
    IN
    IF ~c.ret
    THEN [pool |-> q, host |-> c.host, ret |-> NULL, why |-> "commit"]
    ELSE [pool |-> q, host |-> c.host,
          ret |-> SlotAddr(c.pool, c.pool.occupied_slots), why |-> "ok"]

\* The part of get_allocation after the lazy init (lines 285-296).
get_allocation_body(p, h, nmbr, env, calls) ==
  IF p.free_slots_left < nmbr
  THEN [pool |-> p, host |-> h, ret |-> NULL, why |-> "nofit"]
  ELSE
    LET end_byte == Sub(SlotAddr(p, Add(p.occupied_slots, nmbr)), 1)
        c == checked_range_commit(p, h, end_byte, env, calls)
    IN
    IF ~c.ret
    THEN [pool |-> c.pool, host |-> c.host, ret |-> NULL, why |-> "commit"]
    ELSE [pool |-> [c.pool EXCEPT
                      !.occupied_slots = Add(c.pool.occupied_slots, nmbr),
                      !.free_slots_left = Sub(c.pool.free_slots_left, nmbr)],
          host |-> c.host,
          ret |-> SlotAddr(c.pool, c.pool.occupied_slots),
          why |-> "ok"]

\* ~page_allocator(): TRUE when it throws the runtime error.
page_allocator_dtor(p, h, env) == p.begin_gp # NULL /\ ~deinit_pool(p, h, env).ret

\* get_allocation(nmbr) whose lazy init asks for nmbr pages.
get_allocation_init_nmbr(p, h, nmbr, env) ==
  IF p.begin_gp = NULL
  THEN LET i == init_pool(p, h, nmbr, env) IN
       IF ~i.ret
       THEN [pool |-> i.pool, host |-> i.host, ret |-> NULL, why |-> "init"]
       ELSE get_allocation_body(i.pool, i.host, nmbr, env, i.calls)
  ELSE get_allocation_body(p, h, nmbr, env, 0)

\* void *get_allocation(std::size_t nmbr)
get_allocation(p, h, nmbr, env) ==
  IF p.begin_gp = NULL
  THEN LET i == init_pool(p, h, 0, env) IN
       IF ~i.ret
       THEN [pool |-> i.pool, host |-> i.host, ret |-> NULL, why |-> "init"]
       ELSE get_allocation_body(i.pool, i.host, nmbr, env, i.calls)
  ELSE get_allocation_body(p, h, nmbr, env, 0)

\* extend_allocation without the test of free_slots_left.
extend_allocation_unbounded(p, h, ptr, old_nmbr, new_nmbr, env) ==
  LET allocate_nmbr == Sub(new_nmbr, old_nmbr) IN
  IF ptr = NULL THEN [pool |-> p, host |-> h, ret |-> FALSE, why |-> "null"]
  ELSE IF p.begin_gp = NULL
  THEN [pool |-> p, host |-> h, ret |-> FALSE, why |-> "uninit"]
  ELSE IF FALSE
  THEN [pool |-> p, host |-> h, ret |-> FALSE, why |-> "nofit"]
  ELSE IF Add(ptr, Mul(old_nmbr, elem_size)) # SlotAddr(p, p.occupied_slots)
  THEN [pool |-> p, host |-> h, ret |-> FALSE, why |-> "nottrailing"]
  ELSE
    LET end_byte == Sub(SlotAddr(p, Add(p.occupied_slots, allocate_nmbr)), 1)
        c == checked_range_commit(p, h, end_byte, env, 0)
    IN
    IF ~c.ret
    THEN [pool |-> c.pool, host |-> c.host, ret |-> FALSE, why |-> "commit"]
    ELSE [pool |-> [c.pool EXCEPT
                      !.occupied_slots = Add(c.pool.occupied_slots, allocate_nmbr),
                      !.free_slots_left = Sub(c.pool.free_slots_left, allocate_nmbr)],
          host |-> c.host, ret |-> TRUE, why |-> "ok"]

\* bool extend_allocation(void *ptr, std::size_t old_nmbr, std::size_t new_nmbr)
extend_allocation(p, h, ptr, old_nmbr, new_nmbr, env) ==
  LET allocate_nmbr == Sub(new_nmbr, old_nmbr) IN
  IF ptr = NULL THEN [pool |-> p, host |-> h, ret |-> FALSE, why |-> "null"]
  ELSE IF p.begin_gp = NULL
  THEN [pool |-> p, host |-> h, ret |-> FALSE, why |-> "uninit"]
  ELSE IF p.free_slots_left < allocate_nmbr
  THEN [pool |-> p, host |-> h, ret |-> FALSE, why |-> "nofit"]
  ELSE IF Add(ptr, Mul(old_nmbr, elem_size)) # SlotAddr(p, p.occupied_slots)
  THEN [pool |-> p, host |-> h, ret |-> FALSE, why |-> "nottrailing"]
  ELSE
    LET end_byte == Sub(SlotAddr(p, Add(p.occupied_slots, allocate_nmbr)), 1)
        c == checked_range_commit(p, h, end_byte, env, 0)
    IN
    IF ~c.ret
    THEN [pool |-> c.pool, host |-> c.host, ret |-> FALSE, why |-> "commit"]
    ELSE [pool |-> [c.pool EXCEPT
                      !.occupied_slots = Add(c.pool.occupied_slots, allocate_nmbr),
                      !.free_slots_left = Sub(c.pool.free_slots_left, allocate_nmbr)],
          host |-> c.host, ret |-> TRUE, why |-> "ok"]

\* delete_allocation that gives the slots back to occupied_slots only.
delete_allocation_occupied_only(p, ptr, nmbr) ==
  IF ptr = NULL THEN [pool |-> p, ret |-> FALSE]
  ELSE IF p.begin_gp = NULL THEN [pool |-> p, ret |-> FALSE]
  ELSE [pool |-> [p EXCEPT !.occupied_slots = Sub(p.occupied_slots, nmbr)],
        ret |-> TRUE]

\* delete_allocation without the test of begin_gp.
delete_allocation_unguarded(p, ptr, nmbr) ==
  IF ptr = NULL THEN [pool |-> p, ret |-> FALSE]
  ELSE [pool |-> [p EXCEPT
                    !.occupied_slots = Sub(p.occupied_slots, nmbr),
                    !.free_slots_left = Add(p.free_slots_left, nmbr)],
        ret |-> TRUE]

\* bool delete_allocation(void *ptr, std::size_t nmbr)
delete_allocation(p, ptr, nmbr) ==
  IF ptr = NULL THEN [pool |-> p, ret |-> FALSE]
  ELSE IF p.begin_gp = NULL THEN [pool |-> p, ret |-> FALSE]
  ELSE [pool |-> [p EXCEPT
                    !.occupied_slots = Sub(p.occupied_slots, nmbr),
                    !.free_slots_left = Add(p.free_slots_left, nmbr)],
        ret |-> TRUE]

\* The element of a set of one element.
Only(S) == CHOOSE r \in S : TRUE

\* ------------------------------------------------- copies and moves
\* The members a copy takes from other before it calls init_pool.
CopiedMembers(p, src) ==
  [p EXCEPT !.pages_mmaped = src.pages_mmaped,
            !.occupied_slots = src.occupied_slots,
            !.free_slots_left = src.free_slots_left,
            !.pagesize = src.pagesize]

\* mem_pool(const mem_pool &other)
copy_ctor(src, h, env) ==
  Only({init_pool(p, h, p.pages_mmaped, env)
        : p \in {CopiedMembers(EmptyPool, src)}})

\* mem_pool &operator=(const mem_pool &other), other a different object
copy_assign(dst, src, h, env) ==
  Only({Only({init_pool(p, d.host, p.pages_mmaped, env)
              : p \in {CopiedMembers(d.pool, src)}})
        : d \in {deinit_pool(dst, h, env)}})

\* mem_pool &operator=(const mem_pool &other), other being *this
copy_assign_self(dst, h, env) ==
  Only({init_pool(d.pool, d.host, d.pool.pages_mmaped, env)
        : d \in {deinit_pool(dst, h, env)}})

\* mem_pool(mem_pool &&rhs) and mem_pool &operator=(mem_pool &&rhs): the
\* object takes every member of rhs, and rhs is left with nulls and zeros.
move_from(rhs) == [dst |-> rhs, src |-> EmptyPool]

\* void swap(mem_pool &other): tmp is the copy of other it makes.
swap(this, oth, h, env) ==
  Only({[this |-> move_from(tmp.pool).dst, other |-> move_from(this).dst,
         host |-> tmp.host, ret |-> tmp.ret, why |-> tmp.why]
        : tmp \in {copy_ctor(oth, h, env)}})

\* ----------------------------------------------------------- page_allocator
\* _M_max_size(): PTRDIFF_MAX / sizeof(_Tp), PTRDIFF_MAX being half the
\* address space less one.
M_max_size == ((AddrSpace \div 2) - 1) \div elem_size

\* size_type max_size() const
max_size(objs) == IF objs # 0 THEN objs ELSE M_max_size

\* _Tp *allocate(size_type __n, const void *); why "bad_alloc": it throws.
allocate(p, h, objs, n, env) ==
  IF n > M_max_size
  THEN [pool |-> p, host |-> h, ret |-> NULL, why |-> "bad_alloc"]
  ELSE IF Add(p.occupied_slots, 1) > max_size(objs)
  THEN [pool |-> p, host |-> h, ret |-> NULL, why |-> "bad_alloc"]
  ELSE get_allocation(p, h, n, env)

\* ------------------------------------------------------------ state machine
NoCall == [op |-> "none", ptr |-> NULL, old |-> 0, nmbr |-> 0, ret |-> NULL,
           ok |-> FALSE, why |-> "none", dst |-> "none", src |-> "none",
           hostok |-> FALSE, calls |-> 0]
\* last.calls: the mprotect calls a commit_page or checked_range_commit made.
\* last.ok: the call reported success to its caller (get_allocation: it
\* returned a non-null pointer); last.why: the return statement it took
\* (init_pool: "already" initialized, "mmap" refused, first commit out of
\* "range" or refused by "mprotect"; deinit_pool: begin_gp "null", "munmap"
\* refused; get_allocation / extend_allocation: lazy "init" failed, "null"
\* pointer, "uninit", "nofit", "nottrailing", "commit" failed).
\* For the copies, moves, swaps and destructions of page_allocator objects:
\* dst and src name the objects, why is the return taken by the init_pool of
\* the call, hostok says that the host refused no request of the call.
\* blk: the followed block p and its current size n; fresh: the last call
\* produced it (allocated it, or extended it to n); later: a successful
\* allocation of at least one slot was made after it; freed: a
\* delete_allocation changed the counters after it was allocated; gone: such a
\* delete_allocation was passed p itself.
NoBlk == [valid |-> FALSE, ptr |-> NULL, n |-> 0, fresh |-> FALSE,
          later |-> FALSE, freed |-> FALSE, gone |-> FALSE]

Counts == 0 .. MaxCount
\* Host choices of a call that can only reach mprotect.
CommitEnvs == {[base |-> MAP_FAILED, refuse |-> k, unmap |-> TRUE] : k \in Refusals}
\* Host choices of a call that can only reach munmap.
UnmapEnvs == {[base |-> MAP_FAILED, refuse |-> 0, unmap |-> u] : u \in BOOLEAN}

\* The arena holds a reservation: mmap succeeded in init_pool and the mapping
\* has not been released.
Initialized(p) == p.begin_gp # NULL /\ p.begin_gp # MAP_FAILED

\* The block a caller passes to extend_allocation, as <<pointer, slot count>>:
\* the followed block; when it follows none, the block of all occupied slots
\* (as a container that owns the whole arena holds it).
HeldBlocks ==
  IF blk.valid THEN {<<blk.ptr, blk.n>>}
  ELSE IF pool.allocation_area # NULL
  THEN {<<pool.allocation_area, pool.occupied_slots>>}
  ELSE {}

\* What a caller passes to extend_allocation, as <<ptr, old_nmbr, new_nmbr>>: a
\* block it holds, to grow by up to MaxCount slots or to shrink by one; a
\* null pointer; or, holding no block, the pointer of a block of an earlier
\* lifetime.
ExtendArgs ==
  {<<b[1], b[2], Add(b[2], d)>> : b \in HeldBlocks, d \in Counts}
    \cup {<<b[1], b[2], Sub(b[2], 1)>> : b \in HeldBlocks}
    \cup {<<NULL, 0, 1>>}
    \cup (IF HeldBlocks = {} THEN {<<PageSize, 1, 1>>, <<PageSize, 1, 2>>} ELSE {})

\* What a caller passes to delete_allocation, as <<ptr, nmbr>>: the block the
\* last call allocated or the followed block, with its slot count; the start
\* of the arena (any non-null address when there is none) with a count that
\* nothing validates; or a null pointer.
FreeArgs ==
  {<<NULL, 1>>}
    \cup (IF last.op = "alloc" /\ last.ok THEN {<<last.ret, last.nmbr>>} ELSE {})
    \cup (IF blk.valid THEN {<<blk.ptr, blk.n>>} ELSE {})
    \cup ({IF pool.allocation_area # NULL THEN pool.allocation_area ELSE PageSize}
            \X Counts)

\* The followed block after a call that is no allocation and no extension of it.
Stale(b) == [b EXCEPT !.fresh = FALSE]

\* What the last operation of a vector called: allocate, deallocate and
\* extend_allocation of its allocator, and the elements it relocated.
NoCalls == [allocate |-> 0, deallocate |-> 0, extend |-> 0, relocated |-> 0]
\* A default-constructed vector: _M_start, and the element counts _M_finish -
\* _M_start and _M_end_of_storage - _M_start.  crashed: it wrote an element
\* to an address that is not writable.
NoVec == [start |-> NULL, size |-> 0, cap |-> 0, crashed |-> FALSE,
          calls |-> NoCalls]

\* A default-constructed arena, in a facade whose ceiling is one of objs.
Construct(objs) ==
  /\ pool = EmptyPool
  /\ prot = [pg \in Pages |-> "unmapped"]
  /\ elem_size \in ElemSizes
  /\ last = NoCall
  /\ live = FALSE
  /\ blk = NoBlk
  /\ freed = 0
  /\ torn = FALSE
  /\ objs_number \in objs
  /\ other = EmptyPool
  /\ other_live = FALSE
  /\ alive = {"a"}
  /\ vec = NoVec
  /\ xvec = NoVec
  /\ held = <<>>
  /\ retry = <<>>

Init == Construct({0})

\* init_pool(pgs), pgs drawn from pages (on an arena whose begin_gp is set,
\* where the page count is not looked at: the largest of them).
InitWith(pages) ==
  \E pgs \in (IF pool.begin_gp = NULL THEN pages ELSE {MaxPages}), env \in Envs :
    LET r == init_pool(pool, prot, pgs, env) IN
    /\ pool' = r.pool
    /\ prot' = r.host
    /\ last' = [NoCall EXCEPT !.op = "init", !.nmbr = pgs, !.ok = r.ret,
                              !.why = r.why]
    /\ IF pool.begin_gp = NULL
       THEN live' = r.ret /\ blk' = NoBlk /\ freed' = 0
       ELSE blk' = Stale(blk) /\ UNCHANGED <<live, freed>>
    /\ UNCHANGED <<facade, elem_size, torn>>

\* init_pool(pgs), with 0 for the default page count.
InitPool == InitWith(0 .. MaxPages)

\* deinit_pool()
DeinitPool ==
  \E env \in UnmapEnvs :
    LET r == deinit_pool(pool, prot, env) IN
    /\ pool' = r.pool
    /\ prot' = r.host
    /\ last' = [NoCall EXCEPT !.op = "deinit", !.ok = r.ret, !.why = r.why]
    /\ IF r.ret
       THEN live' = FALSE /\ blk' = NoBlk /\ freed' = 0
       ELSE blk' = Stale(blk) /\ UNCHANGED <<live, freed>>
    /\ torn' = (torn \/ (r.ret /\ live))
    /\ UNCHANGED <<facade, elem_size>>

\* get_allocation(nmbr); track: follow the returned block from now on.
GetAlloc(tracks) ==
  \E nmbr \in Counts, track \in tracks,
     env \in (IF pool.begin_gp = NULL THEN Envs ELSE CommitEnvs) :
    LET r == get_allocation(pool, prot, nmbr, env)
        lazy == pool.begin_gp = NULL
        b0 == IF lazy THEN NoBlk ELSE Stale(blk)
    IN
    /\ pool' = r.pool
    /\ prot' = r.host
    /\ last' = [NoCall EXCEPT !.op = "alloc", !.nmbr = nmbr, !.ret = r.ret,
                              !.ok = (r.ret # NULL), !.why = r.why]
    /\ live' = IF lazy THEN r.why # "init" ELSE live
    /\ freed' = IF lazy THEN 0 ELSE freed
    /\ IF r.ret # NULL
       THEN blk' = IF track
                   THEN [valid |-> TRUE, ptr |-> r.ret, n |-> nmbr, fresh |-> TRUE,
                         later |-> FALSE, freed |-> FALSE, gone |-> FALSE]
                   ELSE IF b0.valid /\ nmbr >= 1
                   THEN [b0 EXCEPT !.later = TRUE]
                   ELSE b0
       ELSE blk' = b0 /\ ~track
    /\ UNCHANGED <<facade, elem_size, torn>>

\* get_allocation(nmbr), following no block.
GetAllocation == GetAlloc({FALSE})

\* extend_allocation(ptr, old_nmbr, new_nmbr)
ExtendAllocation ==
  \E a \in ExtendArgs, env \in CommitEnvs :
    LET ptr == a[1]
        old_nmbr == a[2]
        new_nmbr == a[3]
        r == extend_allocation(pool, prot, ptr, old_nmbr, new_nmbr, env)
    IN
    /\ pool' = r.pool
    /\ prot' = r.host
    /\ last' = [NoCall EXCEPT !.op = "extend", !.ptr = ptr, !.old = old_nmbr,
                              !.nmbr = new_nmbr, !.ok = r.ret, !.why = r.why]
    /\ blk' = IF r.ret /\ blk.valid /\ ptr = blk.ptr /\ old_nmbr = blk.n
              THEN [blk EXCEPT !.n = new_nmbr, !.fresh = TRUE]
              ELSE Stale(blk)
    /\ UNCHANGED <<facade, elem_size, live, freed, torn>>

\* delete_allocation(ptr, nmbr), with <<ptr, nmbr>> drawn from args.
DeleteAlloc(args) ==
  \E a \in args :
    LET ptr == a[1]
        nmbr == a[2]
        r == delete_allocation(pool, ptr, nmbr)
    IN
    /\ r.ret => freed + nmbr <= MaxFreed
    /\ pool' = r.pool
    /\ last' = [NoCall EXCEPT !.op = "free", !.ptr = ptr, !.nmbr = nmbr,
                              !.ok = r.ret, !.why = IF r.ret THEN "ok" ELSE "fail"]
    /\ freed' = IF r.ret THEN freed + nmbr ELSE freed
    /\ blk' = IF r.ret /\ blk.valid /\ nmbr >= 1
              THEN [blk EXCEPT !.freed = TRUE, !.fresh = FALSE,
                               !.gone = @ \/ (ptr = blk.ptr)]
              ELSE Stale(blk)
    /\ UNCHANGED <<facade, prot, elem_size, live, torn>>

\* delete_allocation(ptr, nmbr), whatever the count.
DeleteAllocation == DeleteAlloc(FreeArgs)

\* The calls a container makes on the arena: init, teardown, allocate, extend
\* and free.
Next ==
  \/ InitPool
  \/ DeinitPool
  \/ GetAllocation
  \/ ExtendAllocation
  \/ DeleteAllocation

Spec == Init /\ [][Next]_vars

\* The same calls on an arena that is initialized explicitly, by a caller that
\* gives back no more slots than are occupied, with one of the allocated
\* blocks followed through the calls after it.
InitPoolExplicit == InitWith(1 .. MaxPages)

GetAllocationFollowed == pool.begin_gp # NULL /\ GetAlloc(BOOLEAN)

\* delete_allocation(ptr, nmbr) by a caller that gives back no more slots than
\* are occupied.
DeleteAllocationHeld == DeleteAlloc({a \in FreeArgs : a[2] <= pool.occupied_slots})

NextBlocks ==
  \/ InitPoolExplicit
  \/ DeinitPool
  \/ GetAllocationFollowed
  \/ ExtendAllocation
  \/ DeleteAllocationHeld

SpecBlocks == Init /\ [][NextBlocks]_vars

\* The calls on one arena of MaxPages pages that is never torn down, the page
\* commits of the struct's public interface among them.
InitPoolPages == InitWith({MaxPages})

GetAllocationInitialized == pool.begin_gp # NULL /\ GetAlloc({FALSE})

ExtendAllocationInitialized == pool.begin_gp # NULL /\ ExtendAllocation

\* The addresses a caller passes to commit_page and checked_range_commit:
\* the pages of the mapping and the page after it, and the byte after the
\* first byte of each of these pages.
PageArgs ==
  {Add(pool.begin_gp, Add(Mul(k, pool.pagesize), d)) :
     k \in 0 .. pool.pages_mmaped, d \in {0, 1}}

\* commit_page(pg)
CommitPage ==
  /\ Initialized(pool)
  /\ \E pg \in PageArgs, env \in CommitEnvs :
       LET r == commit_page(pool, prot, pg, env, 0) IN
       /\ pool' = r.pool
       /\ prot' = r.host
       /\ last' = [NoCall EXCEPT !.op = "commit", !.ptr = pg, !.ok = r.ret,
                                 !.why = IF r.ret THEN "ok" ELSE "fail",
                                 !.calls = r.calls]
  /\ UNCHANGED <<facade, elem_size, live, blk, freed, torn>>

\* checked_range_commit(pg)
CheckedRangeCommit ==
  /\ Initialized(pool)
  /\ \E pg \in PageArgs, env \in CommitEnvs :
       LET r == checked_range_commit(pool, prot, pg, env, 0) IN
       /\ pool' = r.pool
       /\ prot' = r.host
       /\ last' = [NoCall EXCEPT !.op = "range", !.ptr = pg, !.ok = r.ret,
                                 !.why = IF r.ret THEN "ok" ELSE "fail",
                                 !.calls = r.calls]
  /\ UNCHANGED <<facade, elem_size, live, blk, freed, torn>>

\* The ceilings of the page_allocator instantiations modelled.
ObjsNumbers == {0, MaxObjects}

\* A default-constructed page_allocator.
InitFacade == Construct(ObjsNumbers)

\* The slot counts passed to page_allocator::allocate: the small ones and
\* the largest std::size_t.
AllocateCounts == Counts \cup {AddrSpace - 1}

\* page_allocator::allocate(n)
Allocate ==
  \E n \in AllocateCounts,
     env \in (IF pool.begin_gp = NULL THEN Envs ELSE CommitEnvs) :
    LET r == allocate(pool, prot, objs_number, n, env)
        lazy == pool.begin_gp = NULL /\ r.why # "bad_alloc"
    IN
    /\ pool' = r.pool
    /\ prot' = r.host
    /\ last' = [NoCall EXCEPT !.op = "allocate", !.nmbr = n, !.ret = r.ret,
                              !.ok = (r.ret # NULL), !.why = r.why]
    /\ live' = IF lazy THEN r.why # "init" ELSE live
    /\ freed' = IF lazy THEN 0 ELSE freed
    /\ blk' = IF lazy THEN NoBlk ELSE Stale(blk)
    /\ UNCHANGED <<facade, elem_size, torn>>

\* The calls a container makes on a page_allocator: allocate, the
\* extend_allocation proxy and deallocate.
NextFacade ==
  \/ Allocate
  \/ ExtendAllocation
  \/ DeleteAllocationHeld

SpecFacade == InitFacade /\ [][NextFacade]_vars

\* ------------------------------------------- two page_allocator objects
\* Two objects a and b, each a page_allocator with its arena _pool.  They
\* are copied, moved, swapped and destroyed as page_allocator objects, and
\* their arenas also by the members of mem_pool itself (a struct whose
\* members are all public), which is where a move differs from a copy.
\* Where the host places mappings when several are held at a time: at the
\* lowest of these addresses whose page is not mapped.
ValueBases == {(2 + k * MaxPages) * PageSize : k \in 0 .. 2}
FreeBases(h) == {b \in ValueBases : h[PageOf(b)] = "unmapped"}
FirstBase(h) ==
  IF FreeBases(h) = {} THEN MAP_FAILED
  ELSE CHOOSE b \in FreeBases(h) : \A c \in FreeBases(h) : b <= c
\* Host choices of a copy or a swap: it accepts mmap or refuses it, and
\* accepts munmap or not; it refuses no mprotect.
ValueEnvs ==
  {e \in [base : Bases \cup {MAP_FAILED}, refuse : {0}, unmap : BOOLEAN] :
     e.base = MAP_FAILED => e.unmap}
\* The choice e with the address of a mapping made when the pages are as in h.
\* pgs pages are to be mapped.  The host keeps ValuePages pages for these
\* mappings and refuses one that would end after them.
ValuePages == 16
FitBase(h, pgs) ==
  Only({IF b = MAP_FAILED THEN MAP_FAILED
        ELSE IF b + pgs * PageSize > (ValuePages - 1) * PageSize
        THEN MAP_FAILED
        ELSE b
        : b \in {FirstBase(h)}})
PlacedAt(e, h, pgs) ==
  [e EXCEPT !.base = IF e.base = MAP_FAILED THEN MAP_FAILED ELSE FitBase(h, pgs)]
\* The pages init_pool(pages_mmaped) of a copy of p asks the host for.
PagesOf(p) == IF p.pages_mmaped = 0 THEN allocate_pgs ELSE p.pages_mmaped

\* The copy constructor and the copy assignments, the host placing the new
\* mapping by the pages as they are when mmap is called.
copy_ctor_placed(src, h, env) ==
  copy_ctor(src, h, PlacedAt(env, h, PagesOf(src)))
copy_assign_placed(dst, src, h, env) ==
  copy_assign(dst, src, h,
              PlacedAt(env, deinit_pool(dst, h, env).host, PagesOf(src)))
copy_assign_self_placed(dst, h, env) ==
  copy_assign_self(dst, h,
                   PlacedAt(env, deinit_pool(dst, h, env).host,
                            PagesOf(deinit_pool(dst, h, env).pool)))

\* void page_allocator::swap(page_allocator &other).  get_mem_pool() returns
\* a const reference, so std::move of it selects the copy assignment of
\* mem_pool: tmp is a copy of other, other becomes a copy of *this, *this a
\* copy of tmp, and tmp is destroyed (throws: its destructor throws).
\* Each statement is evaluated once, on the result of the one before it.
page_allocator_swap(this, oth, h, env) ==
  Only({Only({Only({Only({
    [this |-> t.pool, other |-> o.pool, host |-> d.host,
     this_ret |-> t.ret, this_why |-> t.why,
     other_ret |-> o.ret, other_why |-> o.why,
     throws |-> page_allocator_dtor(tmp.pool, t.host, env)]
    : d \in {deinit_pool(tmp.pool, t.host, env)}})
    : t \in {copy_assign_placed(this, tmp.pool, o.host, env)}})
    : o \in {copy_assign_placed(oth, this, tmp.host, env)}})
    : tmp \in {copy_ctor_placed(oth, h, env)}})

Objects == {"a", "b"}
PoolOf(x) == IF x = "a" THEN pool ELSE other
LiveOf(x) == IF x = "a" THEN live ELSE other_live

\* The two arenas and their ghosts after a call that leaves object x with
\* the arena px (live: lx) and the other object y with py (ly).
Becomes(x, px, lx, py, ly) ==
  /\ pool' = IF x = "a" THEN px ELSE py
  /\ live' = IF x = "a" THEN lx ELSE ly
  /\ other' = IF x = "a" THEN py ELSE px
  /\ other_live' = IF x = "a" THEN ly ELSE lx
  /\ blk' = NoBlk
  /\ freed' = 0
  /\ UNCHANGED <<elem_size, torn, objs_number, vec, xvec, held, retry>>

\* The object that is not x.
Peer(x) == IF x = "a" THEN "b" ELSE "a"

\* The host refused no request of a call that ran init_pool with result r.
HostAccepted(env, r) == env.refuse = 0 /\ env.unmap /\ r.why # "mmap"

\* Object x, not alive, is constructed as a copy of y, by the call op, under
\* one of the host choices envs.
CopyFrom(op, x, y, envs) ==
  \E env \in envs :
    LET r == copy_ctor_placed(PoolOf(y), prot, env) IN
    /\ y \in alive
    /\ Becomes(x, r.pool, r.ret, PoolOf(y), LiveOf(y))
    /\ prot' = r.host
    /\ alive' = alive \cup {x}
    /\ last' = [NoCall EXCEPT !.op = op, !.dst = x, !.src = y, !.ok = r.ret,
                              !.why = r.why, !.hostok = HostAccepted(env, r)]

\* Object x is assigned a copy of y (y may be x), by the call op, under one
\* of the host choices envs.
AssignFrom(op, x, y, envs) ==
  \E env \in envs :
    LET r == IF x = y THEN copy_assign_self_placed(PoolOf(x), prot, env)
             ELSE copy_assign_placed(PoolOf(x), PoolOf(y), prot, env)
        lx == IF r.why = "already" THEN LiveOf(x) ELSE r.ret
    IN
    /\ Becomes(x, r.pool, lx, PoolOf(Peer(x)), LiveOf(Peer(x)))
    /\ prot' = r.host
    /\ UNCHANGED alive
    /\ last' = [NoCall EXCEPT !.op = op, !.dst = x, !.src = y,
                              !.ok = r.ret, !.why = r.why,
                              !.hostok = HostAccepted(env, r)]

\* mem_pool x(y): copy construction of the arena that is not alive.
CopyConstruct ==
  \E x \in Objects \ alive : CopyFrom("copy", x, Peer(x), ValueEnvs)

\* x = y of arenas: copy assignment of mem_pool, also of an arena to itself.
CopyAssign ==
  \E x \in alive, y \in alive : AssignFrom("copy_assign", x, y, ValueEnvs)

\* Host choices of the copies, the moves and the swap of page_allocator
\* objects: the host accepts mmap or refuses it, and accepts every munmap
\* (it refuses munmap in destructors only).
ObjectEnvs == {e \in ValueEnvs : e.unmap}

\* page_allocator x(y): _pool(rhs.get_mem_pool()).
PageAllocatorCopyConstruct ==
  \E x \in Objects \ alive : CopyFrom("copy", x, Peer(x), ObjectEnvs)

\* x = y of page_allocator objects: _pool = rhs.get_mem_pool().
PageAllocatorCopyAssign ==
  \E x \in alive, y \in alive : AssignFrom("copy_assign", x, y, ObjectEnvs)

\* page_allocator x(std::move(y)): _pool(std::move(rhs.get_mem_pool())) is
\* given a const mem_pool, which selects the copy constructor of mem_pool.
PageAllocatorMoveConstruct ==
  \E x \in Objects \ alive : CopyFrom("facade_move", x, Peer(x), ObjectEnvs)

\* x = std::move(y) of page_allocator objects: _pool =
\* std::move(rhs.get_mem_pool()) selects the copy assignment of mem_pool.
PageAllocatorMoveAssign ==
  \E x \in alive, y \in alive :
    AssignFrom("facade_move_assign", x, y, ObjectEnvs)

\* x.swap(y) of page_allocator objects; ok is FALSE when the destructor of
\* its temporary throws.
PageAllocatorSwap ==
  \E x \in alive, env \in ObjectEnvs :
    LET y == Peer(x)
        r == page_allocator_swap(PoolOf(x), PoolOf(y), prot, env)
        lx == IF r.this_why = "already" THEN LiveOf(x) ELSE r.this_ret
        ly == IF r.other_why = "already" THEN LiveOf(y) ELSE r.other_ret
    IN
    /\ y \in alive
    /\ Becomes(x, r.this, lx, r.other, ly)
    /\ prot' = r.host
    /\ UNCHANGED alive
    /\ last' = [NoCall EXCEPT !.op = "facade_swap", !.dst = x, !.src = y,
                              !.ok = ~r.throws, !.why = r.this_why,
                              !.hostok = env.base # MAP_FAILED /\ env.unmap]

\* mem_pool x(std::move(y)): move construction of the arena that is not
\* alive.
MoveConstruct ==
  \E x \in Objects \ alive :
    LET y == Peer(x)
        m == move_from(PoolOf(y))
    IN
    /\ y \in alive
    /\ Becomes(x, m.dst, LiveOf(y), m.src, FALSE)
    /\ alive' = alive \cup {x}
    /\ last' = [NoCall EXCEPT !.op = "move", !.dst = x, !.src = y, !.ok = TRUE,
                              !.hostok = TRUE]
    /\ UNCHANGED prot

\* x = std::move(y) of arenas: move assignment of mem_pool, also of an arena
\* to itself (which ends with the nulls and zeros the operator leaves in
\* rhs).
MoveAssign ==
  \E x \in alive, y \in alive :
    LET m == move_from(PoolOf(y)) IN
    /\ IF x = y
       THEN Becomes(x, m.src, FALSE, PoolOf(Peer(x)), LiveOf(Peer(x)))
       ELSE Becomes(x, m.dst, LiveOf(y), m.src, FALSE)
    /\ last' = [NoCall EXCEPT !.op = "move_assign", !.dst = x, !.src = y,
                              !.ok = TRUE, !.hostok = TRUE]
    /\ UNCHANGED <<prot, alive>>

\* x.swap(y) of arenas: mem_pool::swap.
Swap ==
  \E x \in alive, env \in ValueEnvs :
    LET y == Peer(x)
        r == swap(PoolOf(x), PoolOf(y), prot,
                  PlacedAt(env, prot, PagesOf(PoolOf(y))))
    IN
    /\ y \in alive
    /\ Becomes(x, r.this, r.ret, r.other, LiveOf(x))
    /\ prot' = r.host
    /\ UNCHANGED alive
    /\ last' = [NoCall EXCEPT !.op = "swap", !.dst = x, !.src = y, !.ok = r.ret,
                              !.why = r.why, !.hostok = HostAccepted(env, r)]

\* The end of the lifetime of x: ~page_allocator().  ok is FALSE when it
\* throws.  The storage of the dead object is shown as nulls and zeros.
Destroy ==
  \E x \in alive, env \in UnmapEnvs :
    LET d == deinit_pool(PoolOf(x), prot, env) IN
    /\ Becomes(x, EmptyPool, FALSE, PoolOf(Peer(x)), LiveOf(Peer(x)))
    /\ prot' = d.host
    /\ alive' = alive \ {x}
    /\ last' = [NoCall EXCEPT !.op = "destroy", !.dst = x,
                              !.ok = ~page_allocator_dtor(PoolOf(x), prot, env),
                              !.why = d.why, !.hostok = env.unmap]

\* page_allocator x: default construction of an object that is not alive.
DefaultConstruct ==
  \E x \in Objects \ alive :
    /\ Becomes(x, EmptyPool, FALSE, PoolOf(Peer(x)), LiveOf(Peer(x)))
    /\ alive' = alive \cup {x}
    /\ last' = [NoCall EXCEPT !.op = "construct", !.dst = x, !.ok = TRUE]
    /\ UNCHANGED prot

\* template <class _Tp1, class _Tp2, ...> bool operator==(a, b), by the sizes
\* of the aligned slot types of the two page_allocator types.
equals(size1, size2) == size1 = size2

\* b.deallocate(p, n) for a block p of n slots that a holds.
DeallocateThroughOther ==
  /\ alive = Objects
  /\ \E a \in {h \in HeldBlocks : h[2] >= 1} :
       LET r == delete_allocation(other, a[1], a[2]) IN
       /\ freed + a[2] <= MaxFreed
       /\ freed' = freed + a[2]
       /\ other' = r.pool
       /\ last' = [NoCall EXCEPT !.op = "free", !.dst = "b", !.src = "a",
                                 !.ptr = a[1], !.nmbr = a[2], !.ok = r.ret,
                                 !.why = IF r.ret THEN "ok" ELSE "fail"]
  /\ blk' = Stale(blk)
  /\ UNCHANGED <<pool, prot, elem_size, live, torn, objs_number, other_live,
               alive, vec, xvec, held, retry>>

\* The host places the mapping at the first free address and refuses nothing.
Accepting(pgs) == [base |-> FitBase(prot, pgs), refuse |-> 0, unmap |-> TRUE]

\* Calls on the arena of a while a is alive, the host refusing nothing:
\* init_pool(MaxPages), and a first get_allocation(MaxCount).
InitPoolAlive ==
  /\ "a" \in alive
  /\ LET r == init_pool(pool, prot, MaxPages, Accepting(MaxPages)) IN
     /\ pool' = r.pool
     /\ prot' = r.host
     /\ last' = [NoCall EXCEPT !.op = "init", !.nmbr = MaxPages, !.ok = r.ret,
                               !.why = r.why]
     /\ IF pool.begin_gp = NULL
        THEN live' = r.ret /\ blk' = NoBlk /\ freed' = 0
        ELSE blk' = Stale(blk) /\ UNCHANGED <<live, freed>>
  /\ UNCHANGED <<facade, elem_size, torn>>

GetAllocationAlive ==
  /\ "a" \in alive
  /\ pool.begin_gp # NULL
  /\ pool.occupied_slots = 0
  /\ \E nmbr \in {MaxCount} :
       LET r == get_allocation(pool, prot, nmbr, Accepting(allocate_pgs)) IN
       /\ pool' = r.pool
       /\ prot' = r.host
       /\ last' = [NoCall EXCEPT !.op = "alloc", !.nmbr = nmbr, !.ret = r.ret,
                                 !.ok = (r.ret # NULL), !.why = r.why]
  /\ blk' = Stale(blk)
  /\ UNCHANGED <<facade, elem_size, live, freed, torn>>

\* The arenas of two objects, a (which also allocates) and b, copied, moved
\* and swapped by the members of mem_pool.
NextValues ==
  \/ InitPoolAlive
  \/ GetAllocationAlive
  \/ CopyConstruct
  \/ CopyAssign
  \/ MoveConstruct
  \/ MoveAssign
  \/ Swap
  \/ Destroy
  \/ DefaultConstruct

\* Two page_allocator objects, a (which also allocates) and b, copied, moved
\* and swapped by the members of page_allocator.
NextObjects ==
  \/ InitPoolAlive
  \/ GetAllocationAlive
  \/ PageAllocatorCopyConstruct
  \/ PageAllocatorCopyAssign
  \/ PageAllocatorMoveConstruct
  \/ PageAllocatorMoveAssign
  \/ PageAllocatorSwap
  \/ Destroy
  \/ DefaultConstruct

\* Two page_allocator objects of one type, a and a copy or a default
\* constructed b, with the blocks of a given back through b.
NextEqual ==
  \/ InitPoolPages
  \/ GetAllocationInitialized
  \/ PageAllocatorCopyConstruct
  \/ DefaultConstruct
  \/ DeallocateThroughOther

SpecEqual == Init /\ [][NextEqual]_vars

\* The objects hold one-byte slots.
InitValues == Init /\ elem_size = 1

SpecValues == InitValues /\ [][NextValues]_vars

SpecObjects == InitValues /\ [][NextObjects]_vars

\* ------------------------------------------------------------------ vector
\* vector<_Tp, page_allocator<_Tp, _MaxObjects>>.  The operators return the
\* vector, the arena of its allocator, the host, and how the call ended
\* (out): "ok", or the exception it threw, or "crash" when it wrote to an
\* address that is not writable.
Smaller(a, b) == IF a < b THEN a ELSE b
Larger(a, b) == IF a < b THEN b ELSE a

\* size_type max_size() const, by _S_max_size
vector_max_size(objs) == Smaller(M_max_size, max_size(objs))

\* size_type _M_check_len(size_type __n, const char *__s) const
M_check_len(v, objs, n) ==
  LET len == Add(v.size, Larger(v.size, n)) IN
  [throws |-> Sub(vector_max_size(objs), v.size) < n,
   len |-> IF len < v.size \/ len > vector_max_size(objs)
           THEN vector_max_size(objs) ELSE len]

\* The bytes addr .. addr + len - 1 can be written.
Writable(h, addr, len) ==
  /\ addr # NULL
  /\ addr + len <= AddrSpace
  /\ \A b \in addr .. (addr + len - 1) : h[PageOf(b)] = "rw"

\* grow(nmbr) that never extends the storage in place.
grow_never_extends(v, p, h, objs, nmbr, env) ==
  [vec |-> v, pool |-> p, host |-> h, ret |-> FALSE,
   throws |-> v.start # NULL /\ M_check_len(v, objs, nmbr).throws]

\* bool grow(std::size_t nmbr); throws: _M_check_len threw length_error.
grow(v, p, h, objs, nmbr, env) ==
  IF v.start = NULL
  THEN [vec |-> v, pool |-> p, host |-> h, ret |-> FALSE, throws |-> FALSE]
  ELSE
    LET c == M_check_len(v, objs, nmbr)
        e == extend_allocation(p, h, v.start, v.cap, c.len, env)
        called == [v EXCEPT !.calls.extend = @ + 1]
    IN
    IF c.throws
    THEN [vec |-> v, pool |-> p, host |-> h, ret |-> FALSE, throws |-> TRUE]
    ELSE [vec |-> IF e.ret THEN [called EXCEPT !.cap = c.len] ELSE called,
          pool |-> e.pool, host |-> e.host, ret |-> e.ret, throws |-> FALSE]

\* _Alloc_traits::construct(_M_impl, _M_finish, __x); ++_M_finish
construct_at_finish(v, p, h) ==
  IF Writable(h, Add(v.start, Mul(v.size, elem_size)), elem_size)
  THEN [vec |-> [v EXCEPT !.size = @ + 1], pool |-> p, host |-> h, out |-> "ok"]
  ELSE [vec |-> [v EXCEPT !.crashed = TRUE], pool |-> p, host |-> h,
        out |-> "crash"]

\* pointer _M_allocate(size_t __n)
M_allocate(p, h, objs, n, env) ==
  IF n # 0 THEN allocate(p, h, objs, n, env)
  ELSE [pool |-> p, host |-> h, ret |-> NULL, why |-> "none"]

\* void _M_deallocate(pointer __p, size_t __n)
M_deallocate(p, ptr, n) ==
  IF ptr # NULL THEN delete_allocation(p, ptr, n).pool ELSE p

\* The end of a reallocation: the size elements of v are relocated to tmp,
\* extra more are constructed after them, the old storage is deallocated
\* and the vector takes tmp with capacity n.
relocate_to(v, a, tmp, n, extra) ==
  LET bytes == Mul(v.size + extra, elem_size)
      called == [v EXCEPT !.calls.allocate = @ + 1]
  IN
  IF bytes > 0 /\ ~Writable(a.host, tmp, bytes)
  THEN [vec |-> [called EXCEPT !.crashed = TRUE], pool |-> a.pool,
        host |-> a.host, out |-> "crash"]
  ELSE [vec |-> [called EXCEPT !.start = tmp, !.size = @ + extra, !.cap = n,
                               !.calls.relocated = v.size,
                               !.calls.deallocate =
                                 IF v.start # NULL THEN 1 ELSE 0],
        pool |-> M_deallocate(a.pool, v.start, v.cap), host |-> a.host,
        out |-> "ok"]

\* void _M_realloc_insert(iterator __position, _Args &&...__args) at end()
M_realloc_insert(v, p, h, objs, env) ==
  LET c == M_check_len(v, objs, 1)
      a == M_allocate(p, h, objs, c.len, env)
  IN
  IF c.throws
  THEN [vec |-> v, pool |-> p, host |-> h, out |-> "length_error"]
  ELSE IF a.why = "bad_alloc"
  THEN [vec |-> [v EXCEPT !.calls.allocate = @ + 1], pool |-> p, host |-> h,
        out |-> "bad_alloc"]
  ELSE relocate_to(v, a, a.ret, c.len, 1)

\* void push_back(const value_type &__x)
push_back(v, p, h, objs, env) ==
  IF v.size # v.cap THEN construct_at_finish(v, p, h)
  ELSE
    LET g == grow(v, p, h, objs, 1, env) IN
    IF g.throws
    THEN [vec |-> v, pool |-> p, host |-> h, out |-> "length_error"]
    ELSE IF g.ret THEN construct_at_finish(g.vec, g.pool, g.host)
    ELSE M_realloc_insert(g.vec, g.pool, g.host, objs, env)

\* void reserve(size_type __n)
reserve(v, p, h, objs, n, env) ==
  IF n > vector_max_size(objs)
  THEN [vec |-> v, pool |-> p, host |-> h, out |-> "length_error"]
  ELSE IF v.cap < n
  THEN
    LET g == grow(v, p, h, objs, n, env)
        a == M_allocate(g.pool, g.host, objs, n, env)
    IN
    IF g.throws
    THEN [vec |-> v, pool |-> p, host |-> h, out |-> "length_error"]
    ELSE IF g.ret
    THEN [vec |-> g.vec, pool |-> g.pool, host |-> g.host, out |-> "ok"]
    ELSE IF a.why = "bad_alloc"
    THEN [vec |-> [g.vec EXCEPT !.calls.allocate = @ + 1], pool |-> g.pool,
          host |-> g.host, out |-> "bad_alloc"]
    ELSE relocate_to(g.vec, a, a.ret, n, 0)
  ELSE [vec |-> v, pool |-> p, host |-> h, out |-> "ok"]

\* The ceilings of the allocators a vector is given.
VectorObjs == {0, MaxVectorObjects}
InitVector == Construct(VectorObjs)

\* The host choices of a call of the vector: those of a lazy init_pool when
\* the arena has no mapping, those of mprotect otherwise.
VectorEnvs == IF pool.begin_gp = NULL THEN Envs ELSE CommitEnvs

\* The state after a call of the vector that ended as r, under host env.
\* last: ptr and old are _M_start and the capacity before the call, nmbr
\* its argument, why how it ended; hostok: the host refused nothing.
VectorCall(op, n, r, env) ==
  /\ vec' = r.vec
  /\ pool' = r.pool
  /\ prot' = r.host
  /\ last' = [NoCall EXCEPT !.op = op, !.nmbr = n, !.ptr = vec.start,
                            !.old = vec.cap, !.ret = r.vec.start,
                            !.ok = (r.out = "ok"), !.why = r.out,
                            !.hostok = (env.refuse = 0 /\
                                          (pool.begin_gp = NULL =>
                                             env.base # MAP_FAILED))]
  /\ live' = IF pool.begin_gp = NULL THEN Initialized(r.pool) ELSE live
  /\ blk' = NoBlk
  /\ freed' = 0
  /\ UNCHANGED <<elem_size, torn, objs_number, other, other_live, alive, xvec,
               held, retry>>

\* v.push_back(x)
PushBack ==
  /\ ~vec.crashed
  /\ \E env \in VectorEnvs :
       VectorCall("push_back", 1,
                  push_back([vec EXCEPT !.calls = NoCalls], pool, prot,
                            objs_number, env), env)

\* v.reserve(n)
ReserveCounts == 0 .. MaxReserve
Reserve ==
  /\ ~vec.crashed
  /\ \E n \in ReserveCounts, env \in VectorEnvs :
       VectorCall("reserve", n,
                  reserve([vec EXCEPT !.calls = NoCalls], pool, prot,
                          objs_number, n, env), env)

NextVector ==
  \/ PushBack
  \/ Reserve

SpecVector == InitVector /\ [][NextVector]_vars

\* ------------------------------------------------------------ two vectors
\* Two vectors of one type, vec with the allocator a and xvec with the
\* allocator b, each arena a mapping of allocate_pgs pages; the host
\* refuses nothing and places a mapping at the lowest of these addresses
\* whose page is not mapped.
VectorBases == {(2 + k * allocate_pgs) * PageSize : k \in 0 .. 1}
FirstVectorBase(h) ==
  LET free == {b \in VectorBases : h[PageOf(b)] = "unmapped"} IN
  IF free = {} THEN MAP_FAILED
  ELSE CHOOSE b \in free : \A c \in free : b <= c
VectorPlacedAt(h) == [base |-> FirstVectorBase(h), refuse |-> 0, unmap |-> TRUE]

\* std::__alloc_on_copy(_M_get_Tp_allocator(), __x._M_get_Tp_allocator()):
\* page_allocator::operator=(const page_allocator &), which assigns _pool.
alloc_on_copy(p, xp, h) ==
  copy_assign(p, xp, h, VectorPlacedAt(deinit_pool(p, h, VectorPlacedAt(h)).host))

\* The end of vector::operator=(const vector &) when the elements of __x
\* fit the capacity: they are copied to _M_start.
copy_to_start(v, p, h, xlen) ==
  IF xlen > 0 /\ ~Writable(h, v.start, Mul(xlen, elem_size))
  THEN [vec |-> [v EXCEPT !.crashed = TRUE], pool |-> p, host |-> h,
        out |-> "crash"]
  ELSE [vec |-> [v EXCEPT !.size = xlen], pool |-> p, host |-> h, out |-> "ok"]

\* The branch of vector::operator=(const vector &) that replaces the
\* storage: _M_allocate_and_copy, _M_deallocate of the old storage.
allocate_and_copy(v, p, h, objs, xlen) ==
  Only({
    IF t.why = "bad_alloc"
    THEN [vec |-> [v EXCEPT !.calls.allocate = @ + 1], pool |-> p, host |-> h,
          out |-> "bad_alloc"]
    ELSE IF xlen > 0 /\ ~Writable(t.host, t.ret, Mul(xlen, elem_size))
    THEN [vec |-> [v EXCEPT !.calls.allocate = @ + 1, !.crashed = TRUE],
          pool |-> t.pool, host |-> t.host, out |-> "crash"]
    ELSE [vec |-> [v EXCEPT !.calls.allocate = @ + 1, !.start = t.ret,
                            !.size = xlen, !.cap = xlen,
                            !.calls.deallocate = IF v.start # NULL THEN 1 ELSE 0],
          pool |-> M_deallocate(t.pool, v.start, v.cap), host |-> t.host,
          out |-> "ok"]
    : t \in {M_allocate(p, h, objs, xlen, VectorPlacedAt(h))}})

\* vector &operator=(const vector &__x), __x another vector (xv, with the
\* arena xp of its allocator).  propagate_on_container_copy_assignment is
\* true_type and operator!= of two allocators of one type is false, so the
\* storage is kept and the allocator is assigned; then the elements are
\* copied, after grow and a second operator=(__x) when grow returns true.
RECURSIVE vector_copy_assign(_, _, _, _, _, _)
vector_copy_assign(v, p, xv, xp, h, objs) ==
  Only({
    IF xv.size > v.cap
    THEN Only({
           IF g.throws
           THEN [vec |-> v, pool |-> a.pool, host |-> a.host,
                 out |-> "length_error"]
           ELSE IF g.ret
           THEN vector_copy_assign(g.vec, g.pool, xv, xp, g.host, objs)
           ELSE allocate_and_copy(g.vec, g.pool, g.host, objs, xv.size)
           : g \in {grow(v, a.pool, a.host, objs, Sub(xv.size, v.cap),
                         VectorPlacedAt(a.host))}})
    ELSE copy_to_start(v, a.pool, a.host, xv.size)
    : a \in {alloc_on_copy(p, xp, h)}})

\* The vector and the arena of the object x.
VecOf(x) == IF x = "a" THEN vec ELSE xvec

\* The vectors, arenas and ghosts after a call on the vector of x that ended
\* as r.
VectorBecomes(op, n, x, r) ==
  /\ vec' = IF x = "a" THEN r.vec ELSE vec
  /\ xvec' = IF x = "a" THEN xvec ELSE r.vec
  /\ pool' = IF x = "a" THEN r.pool ELSE pool
  /\ other' = IF x = "a" THEN other ELSE r.pool
  /\ live' = IF x = "a" THEN Initialized(r.pool) ELSE live
  /\ other_live' = IF x = "a" THEN other_live ELSE Initialized(r.pool)
  /\ prot' = r.host
  /\ last' = [NoCall EXCEPT !.op = op, !.nmbr = n, !.dst = x,
                            !.ptr = VecOf(x).start, !.old = VecOf(x).cap,
                            !.ret = r.vec.start, !.ok = (r.out = "ok"),
                            !.why = r.out, !.hostok = TRUE]
  /\ blk' = NoBlk
  /\ freed' = 0
  /\ UNCHANGED <<elem_size, torn, objs_number, alive, held, retry>>

\* vector x;  with a default-constructed allocator
VectorConstruct ==
  /\ "b" \notin alive
  /\ alive' = alive \cup {"b"}
  /\ last' = [NoCall EXCEPT !.op = "construct", !.dst = "b", !.ok = TRUE]
  /\ UNCHANGED <<pool, prot, elem_size, live, blk, freed, torn, objs_number,
                 other, other_live, vec, xvec, held, retry>>

\* v.push_back(value) on one of the two vectors, up to MaxAssignSize
\* elements.
MaxAssignSize == 3
PushBackOf ==
  \E x \in alive :
    /\ ~vec.crashed /\ ~xvec.crashed
    /\ VecOf(x).size < MaxAssignSize
    /\ VectorBecomes("push_back", 1, x,
                     push_back([VecOf(x) EXCEPT !.calls = NoCalls], PoolOf(x),
                               prot, objs_number, VectorPlacedAt(prot)))

\* vec = xvec
VectorCopyAssign ==
  /\ alive = Objects
  /\ ~vec.crashed /\ ~xvec.crashed
  /\ VectorBecomes("vector_copy_assign", xvec.size, "a",
                   vector_copy_assign([vec EXCEPT !.calls = NoCalls], pool,
                                      xvec, other, prot, objs_number))

NextAssign ==
  \/ VectorConstruct
  \/ PushBackOf
  \/ VectorCopyAssign

SpecAssign == InitVector /\ [][NextAssign]_vars

\* ------------------------------------------------------- assign(n, val)
\* The else branch of _M_fill_assign: vector __tmp(__n, __val, allocator of
\* *this), _M_swap_data, and the destructor of __tmp.  _S_check_init_len
\* makes and destroys a copy of the allocator; __tmp holds a second copy
\* (tp), allocates n slots from it and fills them; the vector takes the
\* pointers of __tmp; __tmp deallocates the old storage through its own
\* allocator, which it then destroys.  The host refuses nothing.
fill_from_tmp(v, p, h, objs, n) ==
  Only({Only({Only({
    IF n > vector_max_size(objs)
    THEN [vec |-> v, pool |-> p, host |-> c.host, out |-> "length_error"]
    ELSE IF a.why = "bad_alloc"
    THEN [vec |-> [v EXCEPT !.calls.allocate = @ + 1], pool |-> p,
          host |-> deinit_pool(tp.pool, tp.host, VectorPlacedAt(tp.host)).host,
          out |-> "bad_alloc"]
    ELSE IF ~Writable(a.host, a.ret, Mul(n, elem_size))
    THEN [vec |-> [v EXCEPT !.calls.allocate = @ + 1, !.crashed = TRUE],
          pool |-> p, host |-> a.host, out |-> "crash"]
    ELSE [vec |-> [v EXCEPT !.calls.allocate = @ + 1, !.start = a.ret,
                            !.size = n, !.cap = n,
                            !.calls.deallocate = IF v.start # NULL THEN 1 ELSE 0],
          pool |-> p,
          host |-> deinit_pool(M_deallocate(a.pool, v.start, v.cap), a.host,
                               VectorPlacedAt(a.host)).host,
          out |-> "ok"]
    : a \in {M_allocate(tp.pool, tp.host, objs, n, VectorPlacedAt(tp.host))}})
    : tp \in {copy_ctor(p, c.host, VectorPlacedAt(c.host))}})
    : c \in {deinit_pool(copy_ctor(p, h, VectorPlacedAt(h)).pool,
                         copy_ctor(p, h, VectorPlacedAt(h)).host,
                         VectorPlacedAt(h))}})

\* One run of the body of _M_fill_assign(__n, __val).  out "retry": grow
\* returned true and the body calls _M_fill_assign(__n, __val) again.
fill_assign_body(v, p, h, objs, n) ==
  IF n > v.cap
  THEN Only({
         IF g.throws
         THEN [vec |-> v, pool |-> p, host |-> h, out |-> "length_error"]
         ELSE IF g.ret
         THEN [vec |-> g.vec, pool |-> g.pool, host |-> g.host, out |-> "retry"]
         ELSE fill_from_tmp(g.vec, g.pool, g.host, objs, n)
         : g \in {grow(v, p, h, objs, Sub(n, v.cap), VectorPlacedAt(h))}})
  ELSE IF n > 0 /\ ~Writable(h, v.start, Mul(n, elem_size))
  THEN [vec |-> [v EXCEPT !.crashed = TRUE], pool |-> p, host |-> h,
        out |-> "crash"]
  ELSE [vec |-> [v EXCEPT !.size = n], pool |-> p, host |-> h, out |-> "ok"]

\* v.push_back(value) while no call of vec is in progress.
PushBackIdle ==
  /\ retry = <<>>
  /\ PushBackOf

\* v.assign(n, val): the call enters _M_fill_assign(n, val).
MaxFill == 4
FillAssignCall ==
  /\ retry = <<>>
  /\ ~vec.crashed
  /\ \E n \in 0 .. MaxFill :
       /\ retry' = <<n>>
       /\ last' = [NoCall EXCEPT !.op = "assign", !.nmbr = n, !.dst = "a",
                                 !.ptr = vec.start, !.old = vec.cap,
                                 !.why = "called"]
  /\ UNCHANGED <<pool, prot, elem_size, live, blk, freed, torn, objs_number,
                 other, other_live, alive, vec, xvec, held>>

\* The body of the last frame runs once: it returns or throws, which ends
\* every frame (a frame below does nothing after the call it made), or it
\* calls _M_fill_assign again with the same arguments.  The stack holds
\* MaxStack frames; a call beyond them ends the program (SIGSEGV).
MaxStack == 4
FillAssignBody ==
  /\ retry # <<>>
  /\ \E r \in {fill_assign_body([vec EXCEPT !.calls = NoCalls], pool, prot,
                                 objs_number, retry[1])} :
     /\ vec' = IF r.out = "retry" /\ Len(retry) = MaxStack
               THEN [r.vec EXCEPT !.crashed = TRUE] ELSE r.vec
     /\ pool' = r.pool
     /\ prot' = r.host
     /\ retry' = IF r.out = "retry" /\ Len(retry) < MaxStack
                 THEN Append(retry, retry[1]) ELSE <<>>
     /\ last' = [last EXCEPT !.ret = r.vec.start, !.ok = (r.out = "ok"),
                             !.why = IF r.out = "retry" /\ Len(retry) = MaxStack
                                     THEN "stack_overflow" ELSE r.out,
                             !.hostok = TRUE]
     /\ live' = Initialized(r.pool)
  /\ UNCHANGED <<elem_size, blk, freed, torn, objs_number, other, other_live,
                 alive, xvec, held>>

NextRetry ==
  \/ PushBackIdle
  \/ FillAssignCall
  \/ FillAssignBody

SpecRetry == InitVector /\ [][NextRetry]_vars

NextPages ==
  \/ InitPoolPages
  \/ GetAllocationInitialized
  \/ ExtendAllocationInitialized
  \/ DeleteAllocationHeld
  \/ CommitPage
  \/ CheckedRangeCommit

SpecPages == Init /\ [][NextPages]_vars

\* ------------------------------------------------- a caller and its blocks
\* A caller of one arena of MaxPages pages that keeps every block it is
\* given, extends the blocks it holds, and gives back only blocks it holds,
\* each with its current slot count.
\* The most blocks the caller holds at a time.
MaxHeld == 3

\* The list without its i-th block.
Without(blocks, i) ==
  [k \in 1 .. (Len(blocks) - 1) |-> IF k < i THEN blocks[k] ELSE blocks[k + 1]]

\* get_allocation(nmbr) of at least one slot; the caller keeps the block.
GetAllocationHeld ==
  /\ pool.begin_gp # NULL
  /\ Len(held) < MaxHeld
  /\ \E nmbr \in 1 .. MaxCount, env \in CommitEnvs :
       LET r == get_allocation(pool, prot, nmbr, env) IN
       /\ pool' = r.pool
       /\ prot' = r.host
       /\ last' = [NoCall EXCEPT !.op = "alloc", !.nmbr = nmbr, !.ret = r.ret,
                                 !.ok = (r.ret # NULL), !.why = r.why]
       /\ held' = IF r.ret # NULL THEN Append(held, <<r.ret, nmbr>>) ELSE held
  /\ blk' = Stale(blk)
  /\ UNCHANGED <<objs_number, other, other_live, alive, vec, xvec, elem_size, live,
                 freed, torn, retry>>

\* extend_allocation(ptr, old_nmbr, new_nmbr) of a block the caller holds, to
\* more slots.
ExtendAllocationHeld ==
  \E i \in DOMAIN held, d \in 1 .. MaxCount, env \in CommitEnvs :
    LET ptr == held[i][1]
        old_nmbr == held[i][2]
        new_nmbr == Add(old_nmbr, d)
        r == extend_allocation(pool, prot, ptr, old_nmbr, new_nmbr, env)
    IN
    /\ pool' = r.pool
    /\ prot' = r.host
    /\ last' = [NoCall EXCEPT !.op = "extend", !.ptr = ptr, !.old = old_nmbr,
                              !.nmbr = new_nmbr, !.ok = r.ret, !.why = r.why]
    /\ held' = IF r.ret THEN [held EXCEPT ![i] = <<ptr, new_nmbr>>] ELSE held
    /\ blk' = Stale(blk)
    /\ UNCHANGED <<objs_number, other, other_live, alive, vec, xvec, elem_size, live,
                   freed, torn, retry>>

\* delete_allocation(ptr, nmbr) of a block the caller holds, with its
\* current slot count; the caller holds it no longer.
DeleteAllocationOfHeld ==
  \E i \in DOMAIN held :
    LET ptr == held[i][1]
        nmbr == held[i][2]
        r == delete_allocation(pool, ptr, nmbr)
    IN
    /\ r.ret => freed + nmbr <= MaxFreed
    /\ pool' = r.pool
    /\ last' = [NoCall EXCEPT !.op = "free", !.ptr = ptr, !.nmbr = nmbr,
                              !.ok = r.ret, !.why = IF r.ret THEN "ok" ELSE "fail"]
    /\ freed' = IF r.ret THEN freed + nmbr ELSE freed
    /\ held' = IF r.ret THEN Without(held, i) ELSE held
    /\ blk' = Stale(blk)
    /\ UNCHANGED <<objs_number, other, other_live, alive, vec, xvec, prot,
                   elem_size, live, torn, retry>>

NextHeld ==
  \/ InitPoolPages
  \/ GetAllocationHeld
  \/ ExtendAllocationHeld
  \/ DeleteAllocationOfHeld

SpecHeld == Init /\ [][NextHeld]_vars

\* ------------------------------------------------------------------ claims
\* The block of n slots at ptr, as a byte range, holds the address a.
InBlock(a, ptr, n) == ptr <= a /\ a < ptr + n * elem_size

\* The followed block is the most recent allocation: no block was allocated
\* after it, and it was not passed to delete_allocation.
MostRecent == blk.valid /\ ~blk.later /\ ~blk.gone

\* The call made by this step: extend_allocation(p, a, a + b) on the followed
\* block p of a >= 1 slots.
ExtendsBlk ==
  /\ last'.op = "extend"
  /\ last'.ptr = blk.ptr
  /\ last'.old = blk.n
  /\ last'.old >= 1
  /\ last'.nmbr >= last'.old

\* What C1 asks of one call and of the call before it.
C1_Step ==
  /\ (/\ live
      /\ MostRecent
      /\ ExtendsBlk
      /\ pool.free_slots_left >= last'.nmbr - last'.old
      /\ last'.why # "commit")
     => (/\ last'.ok
         /\ pool'.occupied_slots = Add(pool.occupied_slots, last'.nmbr - last'.old)
         /\ pool'.free_slots_left = Sub(pool.free_slots_left, last'.nmbr - last'.old))
  /\ (/\ live
      /\ MostRecent /\ blk.fresh /\ last.op = "extend"
      /\ last'.op = "alloc" /\ last'.ok)
     => last'.ret = Add(blk.ptr, Mul(blk.n, elem_size))

\* C1: extend in place.  On an initialized arena whose most recent allocation
\* is p of a slots, extend(p, a, a+b) with free_slots >= b and no failing page
\* commit returns true and moves b slots from free_slots to occupied_slots,
\* and a successful allocate right after a successful extend of p returns
\* p + (a+b) slots.
C1_ExtendInPlace == [][C1_Step]_vars

\* What C2 asks of one call and of the call before it.
C2_Step ==
  (last'.op = "alloc" /\ last'.ok /\ freed = 0) =>
    /\ last'.ret = Add(pool.allocation_area, pool.occupied_slots * elem_size)
    /\ pool'.occupied_slots = Add(pool.occupied_slots, last'.nmbr)
    /\ pool'.free_slots_left = Sub(pool.free_slots_left, last'.nmbr)
    /\ (blk.valid /\ blk.fresh /\ last.op = "alloc")
         => last'.ret = Add(blk.ptr, blk.n * elem_size)

\* C2: monotonic bump without frees.  While no slot has been given back in
\* this arena lifetime, a successful allocate(n) returns usable_start +
\* occupied_slots * slot_size (occupied_slots as before the call), adds n to
\* occupied_slots and takes n from free_slots; and an allocation of b slots
\* right after an allocation of a slots at first_pointer returns first_pointer
\* + a * slot_size.
C2_MonotonicBump == [][C2_Step]_vars

\* Two allocations in a row on a fresh arena with no free: the followed block
\* at usable_start, and the block the last call returned right behind it.
C2_Witness ==
  /\ last.op = "alloc" /\ last.ok /\ last.nmbr >= 1
  /\ freed = 0
  /\ blk.valid /\ blk.later /\ blk.n >= 1
  /\ blk.ptr = pool.allocation_area
  /\ last.ret = blk.ptr + blk.n * elem_size
  /\ pool.occupied_slots = blk.n + last.nmbr

\* What C3 asks of one call and of the call before it.
C3_Step ==
  (live /\ last'.op = "alloc" /\ last'.ok) =>
    /\ last'.ret =
         Add(pool.allocation_area, Mul(Add(pool.occupied_slots, freed), elem_size))
    /\ (/\ blk.valid /\ blk.n >= 1
        /\ last.op = "free" /\ last.ok /\ last.ptr = blk.ptr /\ last.nmbr = blk.n)
         => ~InBlock(last'.ret, blk.ptr, blk.n)

\* C3: free does not move the bump pointer.  A successful allocate returns
\* usable_start + (the slots handed out by all earlier allocations and
\* extensions of this lifetime: those occupied plus those given back), and an
\* allocate right after free(p, n) of the followed block returns no address
\* inside that block.
C3_FreeKeepsBumpPointer == [][C3_Step]_vars

\* C4: containment.  After a successful allocate(n), n >= 1, returning p,
\* owns(p) and owns(p + n*slot_size - 1) are true; owns(begin_guard) and
\* owns(end_guard) are false in every initialized state.
C4_Containment ==
  /\ (live /\ last.op = "alloc" /\ last.ok /\ last.nmbr >= 1)
       => /\ owns(pool, last.ret)
          /\ owns(pool, last.ret + last.nmbr * elem_size - 1)
  /\ live => (~owns(pool, pool.begin_gp) /\ ~owns(pool, pool.end_gp))

\* C5: every block handed out lies in the usable region.  A successful
\* allocate(n) on an initialized arena returns p with usable_start <= p and
\* p + n*slot_size <= end_guard.
C5_BlockInUsableRegion ==
  (live /\ last.op = "alloc" /\ last.ok) =>
    /\ pool.allocation_area <= last.ret
    /\ last.ret + last.nmbr * elem_size <= pool.end_gp

\* What C6 asks of one call and of the call before it.
C6_Step ==
  (/\ live
   /\ blk.valid /\ blk.later /\ ~blk.gone
   /\ last.op = "alloc" /\ last.ok /\ last.nmbr >= 1
   /\ ExtendsBlk)
  => (/\ ~last'.ok
      /\ pool'.occupied_slots = pool.occupied_slots
      /\ pool'.free_slots_left = pool.free_slots_left
      /\ pool'.first_not_commited = pool.first_not_commited)

\* C6: extend rejection.  extend(p, a, a+b) called right after a successful
\* allocation of at least one slot that was made after p was allocated returns
\* false and leaves occupied_slots, free_slots and the commit frontier as they
\* were.
C6_ExtendRejection == [][C6_Step]_vars

\* What C7 asks of one call and of the call before it.
C7_Step ==
  (/\ live
   /\ blk.valid /\ blk.later /\ ~blk.gone
   /\ ExtendsBlk /\ last'.nmbr > last'.old)
  => ~last'.ok

\* C7: extension is blocked permanently.  Once a block of at least one slot
\* has been allocated after p, no extend of p to a larger size succeeds in
\* the rest of the arena lifetime, whatever blocks other than p are freed.
C7_ExtensionBlocked == [][C7_Step]_vars

\* What C8 as written asks of one call; of the failing calls, those that end
\* with the arena initialized (no init_pool has failed).
C8_OriginalStep ==
  /\ (last'.op = "alloc" /\ ~last'.ok /\ live')
       => /\ pool'.occupied_slots = pool.occupied_slots
          /\ pool'.free_slots_left = pool.free_slots_left
  /\ (last'.op = "alloc" /\ Initialized(pool) /\ last'.nmbr > pool.free_slots_left)
       => ~last'.ok

\* C8 as written: capacity ceiling.  Whenever allocate(n) fails, occupied_slots
\* and free_slots are after the call what they were before it; and allocate(n)
\* with n > free_slots on an initialized arena fails.
C8_Original == [][C8_OriginalStep]_vars

\* What the amended C8 asks of one call.
C8_Step ==
  /\ (last'.op = "alloc" /\ pool.begin_gp # NULL /\ last'.why # "ok")
       => /\ last'.ret = NULL
          /\ pool'.occupied_slots = pool.occupied_slots
          /\ pool'.free_slots_left = pool.free_slots_left
  /\ (last'.op = "alloc" /\ pool.begin_gp # NULL /\ last'.nmbr > pool.free_slots_left)
       => last'.why = "nofit"

\* C8, amended: on an arena that is initialized before the call, an
\* allocate(n) that is refused - n exceeds free_slots, or a page commit fails -
\* returns null and leaves occupied_slots and free_slots as they were; and
\* allocate(n) with n > free_slots is refused.
C8_CapacityCeiling == [][C8_Step]_vars

\* An initialized arena with occupied slots has refused an allocate(n) whose n
\* exceeds free_slots.
C8_Witness ==
  /\ last.op = "alloc" /\ last.why = "nofit"
  /\ live
  /\ pool.occupied_slots >= 1
  /\ last.nmbr > pool.free_slots_left

C10_Layout ==
  live =>
    /\ pool.begin_gp < pool.allocation_area
    /\ pool.allocation_area < pool.first_not_commited
    /\ pool.first_not_commited <= pool.end_gp

\* C11: guard pages stay inaccessible.  In every state of an initialized
\* arena, neither the first page of the mapping (begin_gp) nor the last one
\* (end_gp) is read/write accessible.
C11_GuardPagesInaccessible ==
  live =>
    /\ prot[PageOf(pool.begin_gp)] # "rw"
    /\ prot[PageOf(pool.end_gp)] # "rw"

\* What C12 asks of one call on an initialized arena.
C12_Step ==
  (live /\ last'.op \in {"alloc", "extend", "free", "commit", "range"}) =>
    /\ pool'.first_not_commited >= pool.first_not_commited
    /\ \A pg \in Pages : prot[pg] = "rw" => prot'[pg] = "rw"

\* C12: commit_frontier is monotone.  Between a successful init and the next
\* teardown no allocate, extend, free, commit_page or checked_range_commit,
\* successful or not, decreases first_not_commited or takes read/write
\* access from a committed page.
C12_FrontierMonotone == [][C12_Step]_vars

\* The arena is as deinit_pool leaves it: pointers null, counters zero.
TornDown(p) ==
  /\ p.begin_gp = NULL /\ p.end_gp = NULL
  /\ p.allocation_area = NULL /\ p.first_not_commited = NULL
  /\ p.pages_mmaped = 0 /\ p.occupied_slots = 0 /\ p.free_slots_left = 0

\* floor((pgs - 2) * page_size / slot_size), pgs = 0 standing for the default.
Capacity(pgs) ==
  Mul(Sub(IF pgs = 0 THEN allocate_pgs ELSE pgs, 2), PageSize) \div elem_size

\* What C13 asks of one call and of the call before it, the host accepting
\* the call's requests and the page count of an init holding a usable page.
C13_Step ==
  /\ (live /\ last'.op = "deinit" /\ last'.why # "munmap") =>
       (last'.ok /\ TornDown(pool') /\ \A pg \in Pages : prot'[pg] = "unmapped")
  /\ (last.op = "deinit" /\ last.ok /\ last'.op = "deinit") =>
       (~last'.ok /\ pool' = pool /\ prot' = prot)
  /\ (last.op = "deinit" /\ last.ok /\ last'.op = "init" /\ last'.nmbr # 1
        /\ last'.why \notin {"mmap", "mprotect"}) =>
       /\ last'.ok
       /\ pool'.occupied_slots = 0
       /\ pool'.free_slots_left = Capacity(last'.nmbr)
  /\ (torn /\ last.op = "init" /\ last.ok /\ last'.op = "alloc" /\ last'.ok) =>
       (last'.ret = pool.allocation_area /\ pool'.allocation_area = pool.allocation_area)

\* C13: teardown and reinit.  deinit_pool of an initialized arena succeeds
\* and resets all pointers to null and all counters to zero; a deinit_pool
\* right after it returns false and changes nothing; an init_pool after it
\* succeeds with occupied_slots = 0 and free_slots_left the full capacity,
\* and the allocation after that one starts at the new allocation_area.
C13_TeardownReinit == [][C13_Step]_vars

\* A first allocation of an arena that was torn down and initialized again.
C13_Witness ==
  /\ torn /\ live
  /\ last.op = "alloc" /\ last.ok /\ last.nmbr >= 1
  /\ last.ret = pool.allocation_area
  /\ pool.occupied_slots = last.nmbr

\* What C14 asks of one init_pool call on an initialized arena.
C14_Step ==
  (live /\ last'.op = "init") =>
    (~last'.ok /\ pool' = pool /\ prot' = prot)

\* C14: double init is rejected without effect.  init_pool on an initialized
\* arena returns false, maps nothing, and leaves begin_gp, end_gp,
\* allocation_area, first_not_commited, pages_mmaped, occupied_slots and
\* free_slots_left unchanged.
C14_DoubleInitRejected == [][C14_Step]_vars

\* A rejected init_pool on an arena with occupied slots.
C14_Witness ==
  /\ live
  /\ last.op = "init" /\ ~last.ok /\ last.why = "already"
  /\ pool.occupied_slots >= 1

\* The pages the host holds mapped.
Mapped(h) == {pg \in Pages : h[pg] # "unmapped"}

\* What C15 asks of one call on an arena whose begin_gp is null, the host
\* accepting the call's requests.
C15_Step ==
  /\ (pool.begin_gp = NULL /\ last'.op = "alloc" /\ last'.why \notin {"init", "commit"}
        /\ last'.nmbr <= Mul(8, PageSize) \div elem_size) =>
       /\ pool'.pages_mmaped = 10
       /\ Cardinality(Mapped(prot')) = 10
       /\ last'.ok
       /\ last'.ret = pool'.allocation_area
       /\ pool'.occupied_slots = last'.nmbr
       /\ pool'.free_slots_left = (Mul(8, PageSize) \div elem_size) - last'.nmbr
  /\ (pool.begin_gp = NULL /\ last'.op = "init" /\ last'.nmbr = 0 /\ last'.ok) =>
       /\ pool'.pages_mmaped = 10
       /\ Cardinality(Mapped(prot')) = 10

C16_ReservationFailureRecoverable ==
  ((last.op = "init" /\ last.why = "mmap") \/ (last.op = "alloc" /\ last.why = "init"
                                                  /\ pool.pages_mmaped = 0
                                                  /\ Mapped(prot) = {})) =>
    /\ ~last.ok
    /\ pool.begin_gp = NULL
    /\ \A env \in UnmapEnvs : ~page_allocator_dtor(pool, prot, env)

\* C17: a failed first commit rolls back.  When init_pool fails to commit
\* the first usable page, a page count too small to hold one included, it
\* returns false and the arena is fully torn down: the mapping is released,
\* all pointers are null and all counters are zero.
C17_FirstCommitRollback ==
  (last.op = "init" /\ last.why \in {"range", "mprotect"}) =>
    /\ ~last.ok
    /\ TornDown(pool)
    /\ Mapped(prot) = {}

\* first_not_commited is one page past the last committed page.
FrontierPastLastCommitted(p, h) ==
  /\ h[PageOf(Sub(p.first_not_commited, p.pagesize))] = "rw"
  /\ \A pg \in Pages : h[pg] = "rw" => pg * PageSize < p.first_not_commited

\* The call is the one before it, made again.
SameRequest ==
  /\ last'.op = last.op /\ last'.ptr = last.ptr
  /\ last'.old = last.old /\ last'.nmbr = last.nmbr

\* What C18 as written asks of one call and of the call before it; of the
\* failing calls, those that end with the arena initialized.
C18_OriginalStep ==
  /\ (last'.op \in {"alloc", "extend"} /\ last'.why = "commit" /\ live') =>
       /\ ~last'.ok
       /\ pool'.occupied_slots = pool.occupied_slots
       /\ pool'.free_slots_left = pool.free_slots_left
       /\ FrontierPastLastCommitted(pool', prot')
  /\ (live /\ last.op \in {"alloc", "extend"} /\ last.why = "commit"
        /\ SameRequest /\ last'.why # "commit") =>
       /\ last'.why = "ok"
       /\ last'.op = "alloc" => last'.ret = SlotAddr(pool, pool.occupied_slots)

\* C18 as written: commit failure is recoverable.  When a page commit fails
\* during allocate or extend, the call reports failure, occupied_slots and
\* free_slots are what they were before the call, first_not_commited is one
\* page past the last committed page, and the same request made again, the
\* host accepting it, succeeds with the address it would have had.
C18_Original == [][C18_OriginalStep]_vars

\* What the amended C18 asks of one call and of the call before it.
C18_Step ==
  /\ (live /\ last'.op \in {"alloc", "extend"} /\ last'.why = "commit") =>
       /\ ~last'.ok
       /\ pool'.occupied_slots = pool.occupied_slots
       /\ pool'.free_slots_left = pool.free_slots_left
       /\ FrontierPastLastCommitted(pool', prot')
  /\ (live /\ last.op \in {"alloc", "extend"} /\ last.why = "commit"
        /\ SameRequest /\ last'.why # "commit") =>
       /\ last'.why = "ok"
       /\ last'.op = "alloc" => last'.ret = SlotAddr(pool, pool.occupied_slots)

\* C18, amended: on an arena that is initialized before the call, when a
\* page commit fails during allocate or extend the call reports failure,
\* occupied_slots and free_slots are what they were before the call,
\* first_not_commited is one page past the last committed page, and the same
\* request made again, the host accepting it, succeeds with the address it
\* would have had.
C18_CommitFailureRecoverable == [][C18_Step]_vars

\* An allocation on an arena with occupied slots has failed on a refused
\* commit, after pages beyond the first were committed.
C18_Witness ==
  /\ live
  /\ last.op = "alloc" /\ last.why = "commit" /\ ~last.ok
  /\ pool.occupied_slots >= 1
  /\ pool.first_not_commited > Add(pool.allocation_area, pool.pagesize)
  /\ pool.first_not_commited < pool.end_gp
  /\ FrontierPastLastCommitted(pool, prot)

\* What C19 asks of one delete_allocation call.
C19_Step ==
  (last'.op = "free") =>
    IF last'.ptr = NULL \/ pool.begin_gp = NULL
    THEN ~last'.ok /\ pool' = pool /\ prot' = prot
    ELSE /\ last'.ok
         /\ pool' = [pool EXCEPT
                       !.occupied_slots = Sub(pool.occupied_slots, last'.nmbr),
                       !.free_slots_left = Add(pool.free_slots_left, last'.nmbr)]
         /\ prot' = prot

C20_Step ==
  (/\ last'.op = "extend"
   /\ \/ last'.ptr = NULL
      \/ pool.begin_gp = NULL
      \/ pool.free_slots_left < Sub(last'.nmbr, last'.old)) =>
    (~last'.ok /\ pool' = pool /\ prot' = prot)

\* C20: extend misuse is a no-op failure.  extend_allocation(p, old, new)
\* returns false and leaves every member and the host's pages unchanged
\* when p is null, when the arena is uninitialized (begin_gp null; no lazy
\* init is run), or when free_slots_left is smaller than new - old, a
\* std::size_t difference.
C20_ExtendMisuseNoOp == [][C20_Step]_vars

\* An extension of the trailing block by more slots than are free was
\* refused.
C20_Witness ==
  /\ live
  /\ last.op = "extend" /\ ~last.ok /\ last.why = "nofit"
  /\ last.old >= 1 /\ last.nmbr > last.old
  /\ pool.free_slots_left >= 1
  /\ Add(last.ptr, Mul(last.old, elem_size)) = SlotAddr(pool, pool.occupied_slots)

\* What C21 asks of one page_allocator::allocate call.
C21_Step ==
  (last'.op = "allocate") =>
    IF (objs_number # 0 /\ last'.nmbr > objs_number) \/ last'.nmbr > M_max_size
    THEN last'.why = "bad_alloc"
    ELSE \E env \in Envs :
           LET r == get_allocation(pool, prot, last'.nmbr, env) IN
           /\ last'.why = r.why /\ last'.ret = r.ret
           /\ pool' = r.pool /\ prot' = r.host

\* C21: page_allocator::allocate(n) fails whenever n exceeds the slot
\* ceiling objs_number (when that is nonzero) or the theoretical maximum,
\* in any arena state; in every other case its result is that of
\* get_allocation(n).
C21_FacadeAllocate == [][C21_Step]_vars

\* The slots an arena can hold: none without a mapping.
CapacityOf(p) ==
  IF Initialized(p)
  THEN Mul(Sub(p.pages_mmaped, 2), p.pagesize) \div elem_size
  ELSE 0

\* What C22 asks of one b.deallocate(p, n) of a block of a.
C22_Step ==
  (last'.op = "free" /\ last'.dst = "b" /\ last'.src = "a"
    /\ equals(elem_size, elem_size)) =>
    /\ pool'.occupied_slots <= CapacityOf(pool')
    /\ other'.occupied_slots <= CapacityOf(other')
    /\ pool'.occupied_slots = pool.occupied_slots - last'.nmbr

\* C22: equality implies interchangeable deallocation.  For two
\* page_allocator objects a and b that compare equal, a block p of n slots
\* allocated from a can be given back through b: after b.deallocate(p, n)
\* both arenas have 0 <= occupied_slots <= capacity and the n slots are no
\* longer counted as occupied in the arena of a.
C22_EqualInterchangeable == [][C22_Step]_vars

\* The pages of the mapping of an arena that holds one.
MappingOf(p) ==
  IF Initialized(p)
  THEN {pg \in Pages : p.begin_gp <= pg * PageSize
                        /\ pg * PageSize <= p.end_gp}
  ELSE {}

\* The arena of object x after the step.
PoolOfNext(x) == IF x = "a" THEN pool' ELSE other'

\* A copy construction or copy assignment of an arena from another,
\* initialized one, in which the host refused nothing.
C23_Copied ==
  /\ last'.op \in {"copy", "copy_assign"}
  /\ last'.dst # last'.src
  /\ Initialized(PoolOf(last'.src))
  /\ last'.hostok

\* What C23 asks of one such copy.
C23_Step ==
  C23_Copied =>
    LET src == PoolOf(last'.src)
        dst == PoolOfNext(last'.dst)
    IN
    /\ Initialized(dst)
    /\ dst.begin_gp # src.begin_gp
    /\ MappingOf(dst) \cap MappingOf(src) = {}
    /\ \A pg \in MappingOf(dst) : prot'[pg] # "unmapped"
    /\ dst.pages_mmaped = src.pages_mmaped
    /\ dst.occupied_slots = 0
    /\ dst.free_slots_left = CapacityOf(dst)
    /\ PoolOfNext(last'.src) = src
    /\ \A pg \in MappingOf(src) : prot'[pg] = prot[pg]

\* C23: copy is not a view.  Copy-constructing or copy-assigning from an
\* initialized arena gives the destination a newly reserved mapping with
\* the page count of the source, occupied_slots = 0 and free_slots_left =
\* full capacity, and leaves the mapping, the frontier and the counters of
\* the source unchanged.
C23_CopyIsNotAView == [][C23_Step]_vars

\* Two arenas reference one mapping: both hold a mapping, at the same
\* address or with a page in common.
Aliased(p, q) ==
  /\ Initialized(p)
  /\ Initialized(q)
  /\ (p.begin_gp = q.begin_gp \/ MappingOf(p) \cap MappingOf(q) # {})

\* What C24 asks of the state after a step and of a move.
C24_Step ==
  /\ ~Aliased(pool', other')
  /\ last'.op \in {"move", "move_assign"} => TornDown(PoolOfNext(last'.src))

\* C24: no aliasing.  After any sequence of copy, move, copy assignment,
\* move assignment and swap of arenas, no two distinct arenas reference
\* the same mapping, and a moved-from arena has all pointers null and all
\* counters zero.
C24_NoAliasing == [][C24_Step]_vars

\* The reserved pages that no arena references.
Leaked(h, p, q) == Mapped(h) \ (MappingOf(p) \cup MappingOf(q))

\* What C25 asks of one call in which the host refused nothing: no
\* reserved page stops being referenced, and none stays reserved once both
\* objects are destroyed.
C25_Step ==
  (last'.op \in {"init", "alloc"} \/ last'.hostok) =>
    /\ Leaked(prot', pool', other') \subseteq Leaked(prot, pool, other)
    /\ (alive' = {} /\ Leaked(prot, pool, other) = {}) => Mapped(prot') = {}

\* C25: no reservation is leaked.  After any sequence of init, copy, move,
\* copy assignment, move assignment, swap, teardown and destruction, every
\* mapping that was reserved and not yet released is referenced by a live
\* arena; once every owner has been destroyed no mapping remains reserved.
C25_NoLeak == [][C25_Step]_vars

\* What C26 asks of one destruction of a page_allocator object, whose
\* arena before the call is p: it throws exactly when p holds a mapping and
\* the host refuses to release it, and a release that succeeds unmaps the
\* pages of the mapping.
C26_Step ==
  last'.op = "destroy" =>
    LET p == PoolOf(last'.dst) IN
    /\ ~last'.ok <=> (Initialized(p) /\ ~last'.hostok)
    /\ (Initialized(p) /\ last'.hostok) =>
         \A pg \in MappingOf(p) : prot'[pg] = "unmapped"

\* C26: destruction-time teardown.  Destroying a page_allocator raises the
\* fatal error if and only if its arena holds a mapping whose release
\* fails; destroying one whose arena is uninitialized, moved-from, or
\* releases successfully never raises, and in the successful case the
\* mapping is released.
C26_DestructorTeardown == [][C26_Step]_vars

\* The length push_back asks for when the vector is full.
C27_Requested == M_check_len(vec, objs_number, 1).len

\* The storage of the vector is the trailing block of the arena.
C27_Trailing ==
  /\ vec.start # NULL
  /\ Add(vec.start, Mul(vec.cap, elem_size)) = SlotAddr(pool, pool.occupied_slots)

\* A push_back on a full vector whose storage is the trailing block of an
\* arena with the free slots the requested length needs, the host
\* refusing nothing.
C27_Grows ==
  /\ last'.op = "push_back"
  /\ vec.size = vec.cap
  /\ C27_Trailing
  /\ pool.free_slots_left >= C27_Requested - vec.cap
  /\ last'.hostok

\* It grew in place: one extend_allocation, no allocate, no deallocate, no
\* element relocated, the same data pointer, the requested capacity.
C27_InPlace ==
  /\ vec'.calls = [NoCalls EXCEPT !.extend = 1]
  /\ vec'.start = vec.start
  /\ vec'.cap = C27_Requested

\* A push_back of a vector with storage allocates only after an
\* extend_allocation that failed, and one that then succeeds has moved the
\* elements to the new block and deallocated the old one.
C27_Fallback ==
  (last'.op = "push_back" /\ vec.start # NULL /\ vec'.calls.allocate > 0) =>
    /\ vec'.calls.extend = 1
    /\ extend_allocation(pool, prot, vec.start, vec.cap, C27_Requested,
                         [base |-> MAP_FAILED, refuse |-> 0, unmap |-> TRUE]).ret
         => ~last'.hostok
    /\ last'.ok =>
         /\ vec'.start # vec.start
         /\ vec'.calls.relocated = vec.size
         /\ vec'.calls.deallocate = 1

C27_OriginalStep == (C27_Grows => C27_InPlace) /\ C27_Fallback

\* C27 as stated: grow in place.  For a vector backed by the page
\* allocator whose storage is the trailing block of its arena, an append
\* that finds size == capacity while the arena has enough free slots grows
\* by extend only (no allocate, no deallocate, no element move), leaves
\* the data pointer unchanged and raises capacity to the requested length;
\* only when extend fails does the vector allocate a new block, move the
\* elements and deallocate the old block.
C27_Original == [][C27_OriginalStep]_vars

C27_Step ==
  /\ (C27_Grows /\ vec.size < vector_max_size(objs_number)) => C27_InPlace
  /\ C27_Fallback

\* C27, amended: the same for an append that finds size == capacity and
\* size < max_size(); at size == max_size() the append throws length_error
\* and the vector is unchanged.
C27_GrowInPlace == [][C27_Step]_vars

\* A full vector has grown in place: its last push_back extended the
\* storage and kept the data pointer.
C27_Witness ==
  /\ last.op = "push_back"
  /\ last.ok
  /\ vec.calls = [NoCalls EXCEPT !.extend = 1]
  /\ vec.start = last.ptr
  /\ vec.cap > last.old
  /\ last.old > 0

\* What C28 asks of one reserve(n).
C28_Step ==
  last'.op = "reserve" =>
    /\ last'.why = "length_error" => last'.nmbr > vector_max_size(objs_number)
    /\ (last'.nmbr <= vector_max_size(objs_number) /\ last'.hostok) =>
         /\ last'.ok
         /\ vec'.cap >= last'.nmbr
         /\ vec'.size = vec.size

\* C28: vector::reserve(n) throws length_error only if n exceeds
\* max_size(); for every n <= max_size() it returns normally with
\* capacity() >= n and the elements unchanged, whatever the current size
\* and capacity (the host refusing nothing).
C28_ReserveLengthError == [][C28_Step]_vars

\* What C29 asks of the state after a successful get_allocation (of at
\* least one slot) or extend_allocation: the occupied slots end at or
\* before first_not_commited, and each of their bytes is in a page the host
\* has made readable and writable.
C29_Step ==
  (last'.op \in {"alloc", "extend"} /\ last'.ok /\ Initialized(pool')
     /\ pool'.occupied_slots <= CapacityOf(pool')) =>
    /\ SlotAddr(pool', pool'.occupied_slots) <= pool'.first_not_commited
    /\ \A b \in pool'.allocation_area ..
                 (SlotAddr(pool', pool'.occupied_slots) - 1) :
         prot'[PageOf(b)] = "rw"

\* C29: committed coverage.  After every successful allocate or extend,
\* every byte of the slots [0, occupied_slots) lies in a committed page:
\* allocation_area + occupied_slots * sizeof(elem_type) <=
\* first_not_commited, for every slot size.
C29_CommittedCoverage == [][C29_Step]_vars

\* C30: the frontier partitions the usable pages.  In every initialized
\* state (one whose init_pool returned true) reachable through init_pool,
\* get_allocation, extend_allocation, delete_allocation, commit_page and
\* checked_range_commit, every page in [allocation_area,
\* first_not_commited) is accessible and every page of the mapping at or
\* after first_not_commited is inaccessible.
C30_FrontierPartitions ==
  (live /\ Initialized(pool)) =>
    \A pg \in Pages :
      LET addr == pg * PageSize IN
      /\ (pool.allocation_area <= addr /\ addr < pool.first_not_commited)
           => prot[pg] = "rw"
      /\ (pool.first_not_commited <= addr /\ addr <= pool.end_gp)
           => prot[pg] = "none"

\* The address is a page of the mapping after the leading guard page and
\* before the trailing one.
UsablePage(p, addr) ==
  /\ addr % PageSize = 0
  /\ p.allocation_area <= addr
  /\ addr < p.end_gp

\* What C31 asks of one commit_page(pg) on an initialized arena.
C31_Step ==
  (/\ live
   /\ Initialized(pool)
   /\ last'.op = "commit"
   /\ ~UsablePage(pool, last'.ptr)) =>
    /\ ~last'.ok
    /\ \A pg \in Pages : prot'[pg] = "rw" => prot[pg] = "rw"
    /\ pool'.first_not_commited = pool.first_not_commited

\* C31: commit_page rejects what is not a usable page.  commit_page(addr)
\* on an initialized arena, with addr not a multiple of the page size or not
\* a page between the two guard pages of the mapping, returns false, makes
\* no page accessible and leaves first_not_commited unchanged.
C31_CommitPageRejects == [][C31_Step]_vars

\* Every page from allocation_area up to the page of the address e has been
\* made readable and writable.
CoveredByCommitted(p, h, e) ==
  /\ p.allocation_area <= e
  /\ e < p.end_gp
  /\ \A pg \in Pages :
       (PageOf(p.allocation_area) <= pg /\ pg <= PageOf(e)) => h[pg] = "rw"

\* What C32 asks of one checked_range_commit(e) on an initialized arena:
\* of a call whose range is committed already, and of a call that repeats a
\* successful call with the same e.
C32_Step ==
  (live /\ Initialized(pool) /\ last'.op = "range") =>
    /\ CoveredByCommitted(pool, prot, last'.ptr) =>
         /\ last'.ok
         /\ last'.calls = 0
         /\ pool'.first_not_commited = pool.first_not_commited
    /\ (last.op = "range" /\ last.ok /\ last.ptr = last'.ptr) =>
         /\ last'.ok
         /\ last'.calls = 0
         /\ pool' = pool
         /\ prot' = prot

\* C32: commit idempotence.  checked_range_commit(e) for an end address e
\* whose pages are committed already returns true, asks the host for no
\* page and leaves first_not_commited unchanged; and a
\* checked_range_commit(e) right after a successful checked_range_commit(e)
\* changes nothing.
C32_CommitIdempotent == [][C32_Step]_vars

\* C33: the ceiling is an upper bound on occupancy.  For a page_allocator
\* with a nonzero ceiling objs_number, in every state reached by its
\* allocate, extend_allocation and deallocate calls (each deallocate given a
\* block that is held), occupied_slots of its arena is at most objs_number.
C33_CeilingBoundsOccupancy ==
  objs_number # 0 => pool.occupied_slots <= objs_number

\* The bytes of the block b = <<pointer, slot count>>.
BytesOf(b) == {a \in 0 .. (AddrSpace - 1) : b[1] <= a /\ a < b[1] + b[2] * elem_size}

\* C34: live blocks are disjoint.  With every delete_allocation(p, n) given
\* the pointer and the current slot count of a block that is held
\* (allocated, possibly extended, not given back), in every state reached
\* by get_allocation, extend_allocation and delete_allocation no two held
\* blocks share a byte, and every held block lies in the slots
\* [0, occupied_slots) of the arena.
C34_LiveBlocksDisjoint ==
  (live /\ Initialized(pool)) =>
    /\ \A i, j \in DOMAIN held :
         i # j => BytesOf(held[i]) \cap BytesOf(held[j]) = {}
    /\ \A i \in DOMAIN held :
         \A a \in BytesOf(held[i]) :
           /\ pool.allocation_area <= a
           /\ a < SlotAddr(pool, pool.occupied_slots)

\* The storage of the vector v lies in the mapping of the arena p, and p
\* counts at least its capacity among the occupied slots.
InOwnArena(v, p) ==
  /\ Initialized(p)
  /\ p.begin_gp <= v.start
  /\ v.start + v.cap * elem_size <= p.begin_gp + p.pages_mmaped * p.pagesize
  /\ v.cap <= p.occupied_slots

\* C35: vector storage stays inside its own arena.  After any sequence of
\* push_back calls and copy assignments between two vectors that use page
\* allocators, the block [_M_start, _M_end_of_storage) of a vector that
\* holds elements lies inside the mapping its own allocator holds, and its
\* capacity is counted in occupied_slots of that arena.
C35_StorageInOwnArena ==
  /\ (vec.size > 0 /\ ~vec.crashed) => InOwnArena(vec, pool)
  /\ (xvec.size > 0 /\ ~xvec.crashed) => InOwnArena(xvec, other)

\* C36: every call of assign(n, val) terminates: no call ends because
\* _M_fill_assign, entered again after grow() returned true, found the size
\* and the capacity it had found before and called itself until the stack
\* was used up.
C36_GrowthTerminates == last.why # "stack_overflow"

\* C37: a swap of two arenas leaves each with exactly the members the other
\* had (its mapping, first_not_commited and counters), and leaves the pages
\* of the host as they were: it reserves and releases no mapping.  (A
\* second swap then restores the state.)
C37_Step ==
  last'.op = "swap" =>
    /\ pool' = other
    /\ other' = pool
    /\ prot' = prot
C37_SwapExchanges == [][C37_Step]_vars

\* The step is a push_back, or a reserve(n), on a vector whose arena is
\* initialized, in which grow() returns false and the allocate that follows
\* returns null because the arena has fewer free slots than it was asked for.
ExhaustedPushBack(env) ==
  LET v == [vec EXCEPT !.calls = NoCalls]
      g == grow(v, pool, prot, objs_number, 1, env)
      c == M_check_len(v, objs_number, 1)
  IN
  /\ ~vec.crashed
  /\ Initialized(pool)
  /\ vec.size = vec.cap
  /\ ~g.throws /\ ~g.ret /\ ~c.throws
  /\ M_allocate(g.pool, g.host, objs_number, c.len, env).why = "nofit"
  /\ VectorCall("push_back", 1, push_back(v, pool, prot, objs_number, env), env)
ExhaustedReserve(n, env) ==
  LET v == [vec EXCEPT !.calls = NoCalls]
      g == grow(v, pool, prot, objs_number, n, env)
  IN
  /\ ~vec.crashed
  /\ Initialized(pool)
  /\ n <= vector_max_size(objs_number)
  /\ vec.cap < n
  /\ ~g.throws /\ ~g.ret
  /\ M_allocate(g.pool, g.host, objs_number, n, env).why = "nofit"
  /\ VectorCall("reserve", n, reserve(v, pool, prot, objs_number, n, env), env)
\* C38: a push_back or reserve in which grow() returns false and the
\* allocate that follows returns null for want of free slots reports
\* failure and leaves _M_start, the size and the capacity as they were: it
\* does not end with a null _M_start and a capacity above 0, and it writes
\* no element through the null pointer.
C38_Step ==
  (\/ \E env \in VectorEnvs : ExhaustedPushBack(env)
   \/ \E n \in ReserveCounts, env \in VectorEnvs : ExhaustedReserve(n, env))
  => /\ ~last'.ok
     /\ ~vec'.crashed
     /\ vec'.start = vec.start
     /\ vec'.size = vec.size
     /\ vec'.cap = vec.cap
C38_ExhaustionReported == [][C38_Step]_vars

\* C39: in the states reached when every delete_allocation gives back a
\* block that is held, extend_allocation(ptr, old_nmbr, new_nmbr) with
\* new_nmbr < old_nmbr returns false and leaves occupied_slots and
\* free_slots_left as they were.
C39_Step ==
  (last'.op = "extend" /\ last'.nmbr < last'.old) =>
    /\ ~last'.ok
    /\ pool'.occupied_slots = pool.occupied_slots
    /\ pool'.free_slots_left = pool.free_slots_left
C39_ShrinkRejected == [][C39_Step]_vars
\* a shrinking extend_allocation of the trailing block of an initialized
\* arena was rejected by the test of free_slots_left
C39_Witness ==
  /\ last.op = "extend"
  /\ last.nmbr < last.old
  /\ last.why = "nofit"
  /\ Initialized(pool)
  /\ Add(last.ptr, Mul(last.old, elem_size)) = SlotAddr(pool, pool.occupied_slots)

====
